---- MODULE Spec2Model ----
(***************************************************************************)
(* LivrariaPython: the book catalogue's service layer (LivrariaService),   *)
(* its repository over the SQLite store (LivroRepository), the backup      *)
(* manager (FileManager) and the record model (Livro).                     *)
(*                                                                         *)
(* Text is a sequence of one-character strings.  Prices are in cents.      *)
(* A file is a record [conteudo, mtime]; the live store's content is the   *)
(* table livros (id -> row) with the AUTOINCREMENT counter seq, which      *)
(* SQLite keeps inside the same file (table sqlite_sequence).              *)
(***************************************************************************)
EXTENDS Integers, Sequences, FiniteSets, TLC

\* ------------------------------------------------------------------ bounds
\* Spec, the whole service: the highest id the store hands out (caps the
\* AUTOINCREMENT counter), the highest modification time given to the live
\* store (caps the writes) and the last clock second (a backup's name is the
\* clock second of its creation).
MaxId == 1
MaxEscritas == 2
MaxRelogio == 1
\* SpecBackup, the service over many seconds: the same three caps.
MaxIdBackup == 1
MaxEscritasBackup == 2
MaxRelogioBackup == 6
\* SpecArea, the FileManager on its own: the last clock second.
MaxRelogioArea == 6
\* SpecLivro, the functions of Livro: the longest title and author.
MaxTexto == 2
\* SpecCSV, the functions of CSVManager: the most rows in a file.
MaxLinhas == 3
\* SpecRepo, the repository and the service's record operations: the highest
\* id handed out and the highest modification time of the store.
MaxIdRepo == 2
MaxEscritasRepo == 3

\* ------------------------------------------------------- program constants
\* datetime.now().year in Livro._validar_ano
AnoAtual == 2026
\* _limpar_backups_antigos(manter=5)
manter == 5

\* Python's None where an integer is expected (an id, a path, a count).
None == -1

\* ------------------------------------------------------------------- text
Espaco == {" ", "\t", "\n"}

RECURSIVE lstrip(_)
lstrip(s) == IF s # <<>> /\ Head(s) \in Espaco THEN lstrip(Tail(s)) ELSE s

RECURSIVE rstrip(_)
rstrip(s) ==
    IF s # <<>> /\ s[Len(s)] \in Espaco THEN rstrip(SubSeq(s, 1, Len(s) - 1)) ELSE s

\* str.strip()
strip(s) == rstrip(lstrip(s))

\* ------------------------------------------------------------ Livro (model)
\* _validar_ano refusing the year 1000.
_validar_ano_exclusivo(ano) == 1000 < ano /\ ano <= AnoAtual + 1

_validar_ano(ano) == 1000 <= ano /\ ano <= AnoAtual + 1

_validar_preco(preco) == preco >= 0

\* validar without its test of the price.
validar_sem_preco(livro) ==
    IF livro.titulo = <<>> \/ strip(livro.titulo) = <<>> THEN "titulo vazio"
    ELSE IF livro.autor = <<>> \/ strip(livro.autor) = <<>> THEN "autor vazio"
    ELSE IF ~_validar_ano(livro.ano_publicacao) THEN "ano invalido"
    ELSE ""

\* Livro.validar: "" when the record is valid, else the ValueError's message.
validar(livro) ==
    IF livro.titulo = <<>> \/ strip(livro.titulo) = <<>> THEN "titulo vazio"
    ELSE IF livro.autor = <<>> \/ strip(livro.autor) = <<>> THEN "autor vazio"
    ELSE IF ~_validar_ano(livro.ano_publicacao) THEN "ano invalido"
    ELSE IF ~_validar_preco(livro.preco) THEN "preco invalido"
    ELSE ""

\* Livro(...): the dataclass with its fields; __post_init__ runs validar.
Livro(id, titulo, autor, ano, preco) ==
    [id |-> id, titulo |-> titulo, autor |-> autor, ano_publicacao |-> ano,
     preco |-> preco]

\* __post_init__: the constructor's result, the object or validar's ValueError.
__post_init__(livro) ==
    IF validar(livro) = "" THEN [exc |-> "", livro |-> livro]
    ELSE [exc |-> "ValueError", livro |-> [livro EXCEPT !.id = None]]

\* Python objects as the cells of a row: a str (its text s), an int (n), a
\* float (n, in cents) or None.
PyStr(s) == [tipo |-> "str", s |-> s, n |-> 0]

PyInt(n) == [tipo |-> "int", s |-> <<>>, n |-> n]

PyFloat(n) == [tipo |-> "float", s |-> <<>>, n |-> n]

PyNone == [tipo |-> "NoneType", s |-> <<>>, n |-> 0]

\* The truth value of an object: None, "", 0 and 0.0 are false.
bool(x) ==
    IF x.tipo = "str" THEN x.s # <<>>
    ELSE IF x.tipo = "NoneType" THEN FALSE
    ELSE x.n # 0

\* int(x) on a str: surrounding whitespace, an optional sign, decimal digits.
Digito ==
    "0" :> 0 @@ "1" :> 1 @@ "2" :> 2 @@ "3" :> 3 @@ "4" :> 4 @@ "5" :> 5 @@
    "6" :> 6 @@ "7" :> 7 @@ "8" :> 8 @@ "9" :> 9

EhDigitos(s) == \A i \in 1..Len(s) : s[i] \in DOMAIN Digito

RECURSIVE ValorDigitos(_)
ValorDigitos(s) ==
    IF s = <<>> THEN 0
    ELSE 10 * ValorDigitos(SubSeq(s, 1, Len(s) - 1)) + Digito[s[Len(s)]]

SemSinal(t) == IF t # <<>> /\ Head(t) \in {"+", "-"} THEN Tail(t) ELSE t

Sinal(t) == IF t # <<>> /\ Head(t) = "-" THEN -1 ELSE 1

int_de_str(x) ==
    LET t == strip(x)
        d == SemSinal(t)
    IN IF d # <<>> /\ EhDigitos(d)
       THEN [ok |-> TRUE, val |-> Sinal(t) * ValorDigitos(d)]
       ELSE [ok |-> FALSE, val |-> 0]

\* float(x) on a str, in cents: digits with at most one point and at least one
\* digit.  (The texts of this model carry at most two decimals and none of
\* float's exponent, inf or nan forms.)
float_de_str(x) ==
    LET t  == strip(x)
        d  == SemSinal(t)
        pt == {i \in 1..Len(d) : d[i] = "."}
        p  == IF pt = {} THEN Len(d) + 1 ELSE CHOOSE i \in pt : TRUE
        in == SubSeq(d, 1, p - 1)
        fr == SubSeq(d, p + 1, Len(d))
        f2 == IF Len(fr) = 0 THEN <<"0", "0">>
              ELSE IF Len(fr) = 1 THEN fr \o <<"0">> ELSE SubSeq(fr, 1, 2)
    IN IF Cardinality(pt) <= 1 /\ EhDigitos(in) /\ EhDigitos(fr) /\ Len(in) + Len(fr) > 0
       THEN [ok |-> TRUE, val |-> Sinal(t) * (100 * ValorDigitos(in) + ValorDigitos(f2))]
       ELSE [ok |-> FALSE, val |-> 0]

\* int(x): a str is parsed, an int is itself, a float is truncated towards
\* zero, None raises TypeError.
int(x) ==
    IF x.tipo = "str" THEN int_de_str(x.s)
    ELSE IF x.tipo = "int" THEN [ok |-> TRUE, val |-> x.n]
    ELSE IF x.tipo = "float"
         THEN [ok |-> TRUE, val |-> IF x.n >= 0 THEN x.n \div 100 ELSE -((-x.n) \div 100)]
    ELSE [ok |-> FALSE, val |-> 0]

\* float(x), in cents: a str is parsed, a float is itself, an int is converted,
\* None raises TypeError.
float(x) ==
    IF x.tipo = "str" THEN float_de_str(x.s)
    ELSE IF x.tipo = "float" THEN [ok |-> TRUE, val |-> x.n]
    ELSE IF x.tipo = "int" THEN [ok |-> TRUE, val |-> 100 * x.n]
    ELSE [ok |-> FALSE, val |-> 0]

\* The decimal digits of a natural number.
RECURSIVE Decimal(_)
Decimal(n) ==
    LET d == CHOOSE c \in DOMAIN Digito : Digito[c] = n % 10
    IN IF n < 10 THEN <<d>> ELSE Append(Decimal(n \div 10), d)

\* str(x): a str is itself, an int its decimal digits, None is "None" and a
\* float its repr with the cents as decimals.
str(x) ==
    IF x.tipo = "str" THEN x.s
    ELSE IF x.tipo = "NoneType" THEN <<"N", "o", "n", "e">>
    ELSE LET a == IF x.n < 0 THEN -x.n ELSE x.n
             m == IF x.n < 0 THEN <<"-">> ELSE <<>>
         IN IF x.tipo = "int" THEN m \o Decimal(a)
            ELSE m \o Decimal(a \div 100) \o <<".">>
                   \o (IF a % 10 = 0 THEN Decimal((a % 100) \div 10)
                       ELSE Decimal((a % 100) \div 10) \o Decimal(a % 10))

\* The place of a Livro where there is none.
SemLivro == Livro(None, <<>>, <<>>, 0, 0)

\* Livro.to_csv_row: [id, titulo, autor, ano_publicacao, preco], the objects
\* themselves.
to_csv_row(livro) ==
    << IF livro.id = None THEN PyNone ELSE PyInt(livro.id),
       PyStr(livro.titulo), PyStr(livro.autor), PyInt(livro.ano_publicacao),
       PyFloat(livro.preco) >>

\* from_csv_row converting row[0] of a row of five whatever its truth value.
from_csv_row_id_sempre(row) ==
    IF Len(row) < 4 THEN [exc |-> "ValueError", livro |-> SemLivro]
    ELSE LET tem_id   == Len(row) >= 5
             id_ok    == ~tem_id \/ int(row[1]).ok
             id_livro == IF tem_id THEN int(row[1]).val ELSE None
             ano      == int(row[4])
             preco    == float(IF Len(row) > 4 THEN row[5] ELSE row[4])
             livro    == Livro(id_livro, str(row[2]), str(row[3]), ano.val, preco.val)
         IN IF id_ok /\ ano.ok /\ preco.ok /\ validar(livro) = ""
            THEN [exc |-> "", livro |-> livro]
            ELSE [exc |-> "ValueError", livro |-> SemLivro]

\* Livro.from_csv_row: the record, or the exception of the length check, of
\* int, of float or of the constructor's validar.  With the 0-based indices of
\* the source: titulo is row[1], autor row[2], ano_publicacao row[3], and preco
\* row[4] when the row has it, else row[3]; the id is row[0] of a row of five.
from_csv_row(row) ==
    IF Len(row) < 4 THEN [exc |-> "ValueError", livro |-> SemLivro]
    ELSE LET tem_id   == Len(row) >= 5 /\ bool(row[1])
             id_ok    == ~tem_id \/ int(row[1]).ok
             id_livro == IF tem_id THEN int(row[1]).val ELSE None
             ano      == int(row[4])
             preco    == float(IF Len(row) > 4 THEN row[5] ELSE row[4])
             livro    == Livro(id_livro, str(row[2]), str(row[3]), ano.val, preco.val)
         IN IF id_ok /\ ano.ok /\ preco.ok /\ validar(livro) = ""
            THEN [exc |-> "", livro |-> livro]
            ELSE [exc |-> "ValueError", livro |-> SemLivro]

\* ------------------------------------------------- LivroRepository (store)
\* DatabaseManager.get_connection around a body that left the table as tx (its
\* uncommitted writes) over the committed table c and raised exc ("" when it
\* returned): conn.commit() after the yield, which itself may raise; on an
\* exception conn.rollback() and the exception goes on; conn.close() in the
\* finally of both paths.  fechadas counts the connections closed.
get_connection_commit_sempre(c, tx, exc, commit_falha) ==
    IF exc = "" /\ ~commit_falha
    THEN [c |-> tx, exc |-> "", fechadas |-> 1]
    ELSE [c |-> tx, exc |-> IF exc # "" THEN exc ELSE "sqlite3.Error", fechadas |-> 1]

get_connection(c, tx, exc, commit_falha) ==
    IF exc = "" /\ ~commit_falha
    THEN [c |-> tx, exc |-> "", fechadas |-> 1]
    ELSE [c |-> c, exc |-> IF exc # "" THEN exc ELSE "sqlite3.Error", fechadas |-> 1]

\* The store after DatabaseManager._criar_tabelas on a new file: table livros
\* is empty and no id was handed out.
_criar_tabelas == [livros |-> {}, seq |-> 0]

Ids(c) == {l.id : l \in c.livros}

\* buscar_por_id: the set holding the record with that id (empty: None).
buscar_por_id(c, livro_id) == {l \in c.livros : l.id = livro_id}

\* criar on a table without AUTOINCREMENT: the new rowid is one more than the
\* largest rowid in the table.
criar_sem_autoincrement(c, livro) ==
    IF validar(livro) # "" THEN [c |-> c, exc |-> "ValueError", id |-> None]
    ELSE LET maior == CHOOSE m \in Ids(c) \cup {0} : \A i \in Ids(c) : i <= m
             novo  == maior + 1
         IN [c   |-> [livros |-> c.livros \cup {[livro EXCEPT !.id = novo]},
                      seq    |-> IF novo > c.seq THEN novo ELSE c.seq],
             exc |-> "",
             id  |-> novo]

\* criar inserting the stripped title and author.
criar_guarda_strip(c, livro) ==
    IF validar(livro) # "" THEN [c |-> c, exc |-> "ValueError", id |-> None]
    ELSE LET novo == c.seq + 1
         IN [c   |-> [livros |-> c.livros \cup
                                   {[livro EXCEPT !.id = novo, !.titulo = strip(@),
                                                  !.autor = strip(@)]},
                      seq    |-> novo],
             exc |-> "",
             id  |-> novo]

\* criar: validar, then INSERT with the AUTOINCREMENT id (lastrowid).
criar(c, livro) ==
    IF validar(livro) # "" THEN [c |-> c, exc |-> "ValueError", id |-> None]
    ELSE LET novo == c.seq + 1
         IN [c   |-> [livros |-> c.livros \cup {[livro EXCEPT !.id = novo]},
                      seq    |-> novo],
             exc |-> "",
             id  |-> novo]

\* atualizar: UPDATE ... SET titulo, autor, ano_publicacao, preco WHERE id = ?
atualizar_sem_validar(c, livro) ==
    IF livro.id = None \/ livro.id = 0 THEN [c |-> c, exc |-> "ValueError", ret |-> FALSE]
    ELSE IF buscar_por_id(c, livro.id) # {}
         THEN [c   |-> [c EXCEPT !.livros = (@ \ buscar_por_id(c, livro.id)) \cup {livro}],
               exc |-> "", ret |-> TRUE]
         ELSE [c |-> c, exc |-> "", ret |-> FALSE]

atualizar(c, livro) ==
    IF livro.id = None \/ livro.id = 0 THEN [c |-> c, exc |-> "ValueError", ret |-> FALSE]
    ELSE IF validar(livro) # "" THEN [c |-> c, exc |-> "ValueError", ret |-> FALSE]
    ELSE IF buscar_por_id(c, livro.id) # {}
         THEN [c   |-> [c EXCEPT !.livros = (@ \ buscar_por_id(c, livro.id)) \cup {livro}],
               exc |-> "", ret |-> TRUE]
         ELSE [c |-> c, exc |-> "", ret |-> FALSE]

\* atualizar_preco without its test of the price.
atualizar_preco_sem_teste(c, livro_id, novo_preco) ==
    IF buscar_por_id(c, livro_id) # {}
    THEN [c   |-> [c EXCEPT !.livros =
                      {IF l.id = livro_id THEN [l EXCEPT !.preco = novo_preco] ELSE l
                         : l \in @}],
          exc |-> "", ret |-> TRUE]
    ELSE [c |-> c, exc |-> "", ret |-> FALSE]

\* atualizar_preco: UPDATE livros SET preco = ? WHERE id = ?
atualizar_preco(c, livro_id, novo_preco) ==
    IF novo_preco < 0 THEN [c |-> c, exc |-> "ValueError", ret |-> FALSE]
    ELSE IF buscar_por_id(c, livro_id) # {}
         THEN [c   |-> [c EXCEPT !.livros =
                           {IF l.id = livro_id THEN [l EXCEPT !.preco = novo_preco] ELSE l
                              : l \in @}],
               exc |-> "", ret |-> TRUE]
         ELSE [c |-> c, exc |-> "", ret |-> FALSE]

\* deletar returning True whatever rowcount is.
deletar_sempre_true(c, livro_id) ==
    [c   |-> [c EXCEPT !.livros = @ \ buscar_por_id(c, livro_id)],
     ret |-> TRUE]

\* deletar: DELETE FROM livros WHERE id = ?
deletar(c, livro_id) ==
    [c   |-> [c EXCEPT !.livros = @ \ buscar_por_id(c, livro_id)],
     ret |-> buscar_por_id(c, livro_id) # {}]

\* contar_livros
contar_livros(c) == Cardinality(c.livros)

\* The code points of the characters of this model's titles: SQLite compares
\* TEXT under the BINARY collation.
Ord ==
    "\t" :> 9 @@ "\n" :> 10 @@ " " :> 32 @@ "\"" :> 34 @@ "'" :> 39 @@ "," :> 44 @@
    "A" :> 65 @@ "D" :> 68 @@ "E" :> 69 @@ "F" :> 70 @@ "H" :> 72 @@
    "a" :> 97 @@ "d" :> 100 @@ "e" :> 101 @@ "f" :> 102 @@ "h" :> 104 @@ "o" :> 111

RECURSIVE TextoMenorIgual(_, _)
TextoMenorIgual(a, b) ==
    IF a = <<>> THEN TRUE
    ELSE IF b = <<>> THEN FALSE
    ELSE IF Head(a) # Head(b) THEN Ord[Head(a)] < Ord[Head(b)]
    ELSE TextoMenorIgual(Tail(a), Tail(b))

\* The lists of all the elements of a set, each once.
RECURSIVE Listas(_)
Listas(S) ==
    IF S = {} THEN {<<>>}
    ELSE UNION {{<<l>> \o r : r \in Listas(S \ {l})} : l \in S}

\* buscar_todos: SELECT * FROM livros ORDER BY titulo.  Rows of equal title
\* come in an order SQL leaves open.
buscar_todos(c) ==
    {r \in Listas(c.livros) :
        \A i \in 1..(Len(r) - 1) : TextoMenorIgual(r[i].titulo, r[i + 1].titulo)}

\* MIN and MAX of SQL over a set of numbers: NULL (None) over no row.
MIN(S) == IF S = {} THEN None ELSE CHOOSE x \in S : \A y \in S : x <= y

MAX(S) == IF S = {} THEN None ELSE CHOOSE x \in S : \A y \in S : x >= y

\* The sum of the prices of a set of rows.
RECURSIVE SomaPrecos(_)
SomaPrecos(S) ==
    IF S = {} THEN 0
    ELSE LET l == CHOOSE x \in S : TRUE IN l.preco + SomaPrecos(S \ {l})

\* AVG(preco), the fraction num/den of the sum of the prices (in cents) over
\* the number of rows: NULL (None) over no row.
AVG(S) == IF S = {} THEN None ELSE [num |-> SomaPrecos(S), den |-> Cardinality(S)]

\* 'x or 0' for the result of an aggregate: None and zero give 0.
Ou0(x) == IF x = None THEN 0 ELSE x

\* buscar_estatisticas without its 'or 0'.
buscar_estatisticas_sem_or(c) ==
    [total_livros     |-> Cardinality(c.livros),
     preco_medio      |-> IF c.livros = {} THEN [num |-> None, den |-> 1] ELSE AVG(c.livros),
     preco_maximo     |-> MAX({l.preco : l \in c.livros}),
     preco_minimo     |-> MIN({l.preco : l \in c.livros}),
     ano_mais_antigo  |-> MIN({l.ano_publicacao : l \in c.livros}),
     ano_mais_recente |-> MAX({l.ano_publicacao : l \in c.livros})]

\* buscar_estatisticas: the aggregates of the table as it is now; preco_medio
\* is the fraction num/den, 0/1 for 'None or 0'.
buscar_estatisticas(c) ==
    [total_livros     |-> Cardinality(c.livros),
     preco_medio      |-> IF c.livros = {} THEN [num |-> 0, den |-> 1] ELSE AVG(c.livros),
     preco_maximo     |-> Ou0(MAX({l.preco : l \in c.livros})),
     preco_minimo     |-> Ou0(MIN({l.preco : l \in c.livros})),
     ano_mais_antigo  |-> Ou0(MIN({l.ano_publicacao : l \in c.livros})),
     ano_mais_recente |-> Ou0(MAX({l.ano_publicacao : l \in c.livros}))]

\* ------------------------------------------------------------ FileManager
\* A path that holds no file.
Inexistente == [existe |-> FALSE, conteudo |-> _criar_tabelas, mtime |-> 0]

\* shutil.copy2(source, backups_dir/nome): the artifact takes the source's bytes
\* and, with them, the source's modification time; an artifact of that name is
\* overwritten.
copy2(bk, fonte, nome) ==
    {b \in bk : b.nome # nome}
        \cup {[nome |-> nome, conteudo |-> fonte.conteudo, mtime |-> fonte.mtime]}

\* The values sorted(backups, key=st_mtime, reverse=True)[len(bk) - n:] can
\* take: the n last artifacts of the descending order.  list.sort is stable, so
\* artifacts of equal mtime stay in glob's order, which is the directory's.
RECURSIVE UltimosOrdenados(_, _)
UltimosOrdenados(bk, n) ==
    IF n = 0 THEN {<<>>}
    ELSE UNION {{o \o <<b>> : o \in UltimosOrdenados(bk \ {b}, n - 1)}
                  : b \in {x \in bk : \A y \in bk : x.mtime <= y.mtime}}

\* _limpar_backups_antigos: unlink backups[manter:] in order; the first unlink
\* that raises ends the loop (the try encloses the loop).  k unlinks succeed.
_limpar_backups_antigos(bk) ==
    LET n == IF Cardinality(bk) > manter THEN Cardinality(bk) - manter ELSE 0
    IN {[bk            |-> bk \ {cauda[i] : i \in 1..k},
         unlink_falhou |-> k < n]
          : <<cauda, k>> \in UltimosOrdenados(bk, n) \X (0..n)}

\* criar_backup running the pruning also when the source is missing.
criar_backup_limpa_sempre(bk, fonte, agora) ==
    IF ~fonte.existe
    THEN {[bk |-> r.bk, ret |-> None, copia_falhou |-> FALSE,
           unlink_falhou |-> r.unlink_falhou] : r \in _limpar_backups_antigos(bk)}
    ELSE {[bk |-> bk, ret |-> None, copia_falhou |-> TRUE, unlink_falhou |-> FALSE]}
         \cup {[bk |-> r.bk, ret |-> agora, copia_falhou |-> FALSE,
                unlink_falhou |-> r.unlink_falhou]
                 : r \in _limpar_backups_antigos(copy2(bk, fonte, agora))}

\* criar_backup(source_path) at clock second agora: None when the source is
\* missing or copy2 raises, else the artifact's name.
criar_backup(bk, fonte, agora) ==
    IF ~fonte.existe
    THEN {[bk |-> bk, ret |-> None, copia_falhou |-> FALSE, unlink_falhou |-> FALSE]}
    ELSE {[bk |-> bk, ret |-> None, copia_falhou |-> TRUE, unlink_falhou |-> FALSE]}
         \cup {[bk |-> r.bk, ret |-> agora, copia_falhou |-> FALSE,
                unlink_falhou |-> r.unlink_falhou]
                 : r \in _limpar_backups_antigos(copy2(bk, fonte, agora))}

\* listar_backups (its names; the order is by mtime)
listar_backups(bk) == {b.nome : b \in bk}

Artefato(bk, nome) == {b \in bk : b.nome = nome}

\* restaurar_backup without the exists() test on the chosen backup: the
\* safety snapshot is taken, then copy2 raises.
restaurar_backup_sem_exists(fs, nome, agora) ==
    UNION {
      {[fs |-> [banco   |-> [existe |-> TRUE, conteudo |-> b.conteudo, mtime |-> b.mtime],
                backups |-> r.bk],
        ret |-> TRUE, backup |-> r.ret, copia_falhou |-> r.copia_falhou,
        unlink_falhou |-> r.unlink_falhou] : b \in {x \in r.bk : x.nome = nome}}
      \cup {[fs |-> [fs EXCEPT !.backups = r.bk], ret |-> FALSE, backup |-> r.ret,
             copia_falhou |-> r.copia_falhou, unlink_falhou |-> r.unlink_falhou]}
      : r \in criar_backup(fs.backups, fs.banco, agora)}

\* restaurar_backup(backup_path): the safety snapshot, then copy2 over the live
\* store.  copy2 raising (the chosen artifact is gone, or a fault before the
\* first byte is written) is caught and gives False.
restaurar_backup(fs, nome, agora) ==
    IF Artefato(fs.backups, nome) = {}
    THEN {[fs |-> fs, ret |-> FALSE, backup |-> None, copia_falhou |-> FALSE,
           unlink_falhou |-> FALSE]}
    ELSE UNION {
           (IF Artefato(r.bk, nome) = {} THEN {}
            ELSE {[fs |-> [banco   |-> [existe   |-> TRUE,
                                         conteudo |-> b.conteudo,
                                         mtime    |-> b.mtime],
                            backups |-> r.bk],
                   ret |-> TRUE, backup |-> r.ret, copia_falhou |-> r.copia_falhou,
                   unlink_falhou |-> r.unlink_falhou] : b \in Artefato(r.bk, nome)})
           \cup {[fs |-> [fs EXCEPT !.backups = r.bk],
                  ret |-> FALSE, backup |-> r.ret,
                  copia_falhou |-> (Artefato(r.bk, nome) # {}) \/ r.copia_falhou,
                  unlink_falhou |-> r.unlink_falhou]}
           : r \in criar_backup(fs.backups, fs.banco, agora)}

\* -------------------------------------------------------------- CSVManager
\* str.lower() on the letters the texts of this model use.
Minuscula ==
    "A" :> "a" @@ "D" :> "d" @@ "E" :> "e" @@ "F" :> "f" @@ "H" :> "h" @@ "I" :> "i" @@
    "N" :> "n" @@ "O" :> "o" @@ "P" :> "p" @@ "R" :> "r" @@ "T" :> "t" @@
    "U" :> "u" @@ "Y" :> "y"

lower(s) == [i \in 1..Len(s) |-> IF s[i] \in DOMAIN Minuscula THEN Minuscula[s[i]] ELSE s[i]]

\* indicator in primeira_celula
Contem(s, sub) ==
    \E i \in 0..(Len(s) - Len(sub)) : SubSeq(s, i + 1, i + Len(sub)) = sub

headers_indicators ==
    { <<"i", "d">>,
      <<"t", "í", "t", "u", "l", "o">>, <<"t", "i", "t", "l", "e">>,
      <<"a", "u", "t", "o", "r">>, <<"a", "u", "t", "h", "o", "r">>,
      <<"a", "n", "o">>, <<"y", "e", "a", "r">>,
      <<"p", "r", "e", "ç", "o">>, <<"p", "r", "i", "c", "e">> }

\* _is_header comparing the cell as written, without lower().
_is_header_sem_lower(linha) ==
    /\ linha # <<>>
    /\ \E indicator \in headers_indicators : Contem(strip(linha[1]), indicator)

_is_header(linha) ==
    /\ linha # <<>>
    /\ \E indicator \in headers_indicators : Contem(strip(lower(linha[1])), indicator)

\* A CSV file as csv.reader yields it under the sniffed delimiter: the rows,
\* each a sequence of cells; sniff tells whether csv.Sniffer finds a delimiter.
LinhaVazia(linha) == linha = <<>> \/ \A i \in 1..Len(linha) : strip(linha[i]) = <<>>

\* A row as csv.reader yields it: a list of str.
Celulas(linha) == [i \in 1..Len(linha) |-> PyStr(linha[i])]

\* The loop over the rows after the first: row k of the file has linha_num k.
RECURSIVE ProcessarLinhas(_, _, _)
ProcessarLinhas(linhas, k, acc) ==
    IF k > Len(linhas) THEN acc
    ELSE IF LinhaVazia(linhas[k]) THEN ProcessarLinhas(linhas, k + 1, acc)
    ELSE LET r == from_csv_row(Celulas(linhas[k]))
         IN ProcessarLinhas(linhas, k + 1,
                IF r.exc = ""
                THEN [acc EXCEPT !.livros = Append(@, r.livro)]
                ELSE [acc EXCEPT !.linhas_com_erro = Append(@, k)])

\* importar_livros: the records read, and the row numbers logged as errors.
importar_livros(arquivo) ==
    IF ~arquivo.existe
    THEN [exc |-> "FileNotFoundError", livros |-> <<>>, linhas_com_erro |-> <<>>]
    ELSE IF ~arquivo.sniff
    THEN [exc |-> "csv.Error", livros |-> <<>>, linhas_com_erro |-> <<>>]
    ELSE LET vazio    == [exc |-> "", livros |-> <<>>, linhas_com_erro |-> <<>>]
             primeira == IF arquivo.linhas = <<>> THEN <<>> ELSE arquivo.linhas[1]
             r        == from_csv_row(Celulas(primeira))
             inicio   == IF primeira # <<>> /\ _is_header(primeira) THEN vazio
                         ELSE IF primeira = <<>> THEN vazio
                         ELSE IF r.exc = "" THEN [vazio EXCEPT !.livros = <<r.livro>>]
                         ELSE [vazio EXCEPT !.linhas_com_erro = <<1>>]
         IN ProcessarLinhas(arquivo.linhas, 2, inicio)

\* The header row exportar_livros writes.
Cabecalho ==
    << <<"I", "D">>, <<"T", "í", "t", "u", "l", "o">>, <<"A", "u", "t", "o", "r">>,
       <<"A", "n", "o", " ", "d", "e", " ", "P", "u", "b", "l", "i", "c", "a", "ç", "ã", "o">>,
       <<"P", "r", "e", "ç", "o">> >>

RECURSIVE DobraAspas(_)
DobraAspas(s) ==
    IF s = <<>> THEN <<>>
    ELSE (IF Head(s) = "\"" THEN <<"\"", "\"">> ELSE <<Head(s)>>) \o DobraAspas(Tail(s))

\* quoting=csv.QUOTE_MINIMAL with delimiter ',' and quotechar '"': a field is
\* quoted when it holds the delimiter, the quotechar or a line break, and the
\* quotechars inside it are doubled.
Citado(s) ==
    IF \E i \in 1..Len(s) : s[i] \in {",", "\"", "\r", "\n"}
    THEN <<"\"">> \o DobraAspas(s) \o <<"\"">>
    ELSE s

RECURSIVE Junta(_, _)
Junta(campos, k) ==
    IF k > Len(campos) THEN <<>>
    ELSE (IF k > 1 THEN <<",">> ELSE <<>>) \o Citado(campos[k]) \o Junta(campos, k + 1)

\* writer.writerow(row): the line written, without its terminator; None is
\* written as the empty text, any other object as its str().  (A cell holding
\* a line break would span lines; the rows of this model hold none.)
writerow(row) ==
    Junta([i \in 1..Len(row) |-> IF row[i].tipo = "NoneType" THEN <<>> ELSE str(row[i])], 1)

\* exportar_livros: nothing for an empty list; else the file nome of the
\* export area is written anew with the header and one row per Livro, and its
\* path returned; when open() raises, nothing is written and None returned.
exportar_livros_sem_teste(exp, livros, nome) ==
    { [exports |-> {f \in exp : f.nome # nome}
                      \cup {[nome   |-> nome,
                              linhas |-> <<writerow([i \in 1..5 |-> PyStr(Cabecalho[i])])>>
                                         \o [i \in 1..Len(livros) |-> writerow(to_csv_row(livros[i]))]]},
       ret |-> nome, falhou |-> FALSE],
      [exports |-> exp, ret |-> None, falhou |-> TRUE] }

exportar_livros(exp, livros, nome) ==
    IF livros = <<>> THEN {[exports |-> exp, ret |-> None, falhou |-> FALSE]}
    ELSE { [exports |-> {f \in exp : f.nome # nome}
                           \cup {[nome   |-> nome,
                                   linhas |-> <<writerow([i \in 1..5 |-> PyStr(Cabecalho[i])])>>
                                              \o [i \in 1..Len(livros) |-> writerow(to_csv_row(livros[i]))]]},
            ret |-> nome, falhou |-> FALSE],
           [exports |-> exp, ret |-> None, falhou |-> TRUE] }

\* The sample csvfile.read(1024) of a file of these lines, each with the
\* writer's terminator.
RECURSIVE Amostra(_)
Amostra(linhas) ==
    IF linhas = <<>> THEN <<>>
    ELSE Head(linhas) \o <<"\r", "\n">> \o Amostra(Tail(linhas))

\* The characters of this model's texts that are no word character, no line
\* feed and no quote: what csv.Sniffer can take for a delimiter.
Delimitadores == {",", " ", "\t", ";", ":", "|", ".", "\r"}

\* csv.Sniffer._guess_quote_and_delimiter: the matches, from left to right and
\* without overlap, of a delimiter d, an optional blank, a quote, the shortest
\* text, the same quote and d again; each match gives its d.  (The other
\* patterns want a quote at the start or at the end of a line, where an
\* exported line has the id and the price.)
RECURSIVE DelimitadoresCitados(_, _)
DelimitadoresCitados(t, i) ==
    IF i > Len(t) THEN <<>>
    ELSE LET Aspas == {"\"", "'"}
             a == IF i + 1 <= Len(t) /\ t[i + 1] \in Aspas THEN 1
                  ELSE IF i + 2 <= Len(t) /\ t[i + 1] = " " /\ t[i + 2] \in Aspas THEN 2
                  ELSE 0
             J == IF t[i] \in Delimitadores /\ a # 0
                  THEN {j \in (i + a + 1)..(Len(t) - 1) : t[j] = t[i + a] /\ t[j + 1] = t[i]}
                  ELSE {}
         IN IF J = {} THEN DelimitadoresCitados(t, i + 1)
            ELSE <<t[i]>> \o DelimitadoresCitados(t, (CHOOSE j \in J : \A k \in J : j <= k) + 2)

\* sniffer.sniff(sample).delimiter on a file exportar_livros wrote: the most
\* frequent delimiter found around a quoted stretch (the first found among
\* equals), and with none found the guess by frequency, which is ',' since
\* every line holds four of them outside quotes.
sniff(linhas) ==
    LET citados == DelimitadoresCitados(Amostra(linhas), 1)
        vezes(d) == Cardinality({k \in 1..Len(citados) : citados[k] = d})
        melhor   == CHOOSE k \in 1..Len(citados) :
                        /\ \A m \in 1..Len(citados) : vezes(citados[m]) <= vezes(citados[k])
                        /\ \A m \in 1..(k - 1) : vezes(citados[m]) < vezes(citados[k])
    IN IF citados = <<>> THEN "," ELSE citados[melhor]

\* csv.reader on one line with the given delimiter and the default quotechar
\* '"' (doublequote): the cells of the row.
RECURSIVE LerCampos(_, _, _, _, _, _)
LerCampos(linha, delimiter, i, campo, citado, campos) ==
    IF i > Len(linha) THEN Append(campos, campo)
    ELSE IF citado
    THEN IF linha[i] # "\"" THEN LerCampos(linha, delimiter, i + 1, Append(campo, linha[i]), TRUE, campos)
         ELSE IF i < Len(linha) /\ linha[i + 1] = "\""
              THEN LerCampos(linha, delimiter, i + 2, Append(campo, "\""), TRUE, campos)
              ELSE LerCampos(linha, delimiter, i + 1, campo, FALSE, campos)
    ELSE IF linha[i] = delimiter
    THEN LerCampos(linha, delimiter, i + 1, <<>>, FALSE, Append(campos, campo))
    ELSE IF linha[i] = "\"" /\ campo = <<>>
    THEN LerCampos(linha, delimiter, i + 1, campo, TRUE, campos)
    ELSE LerCampos(linha, delimiter, i + 1, Append(campo, linha[i]), FALSE, campos)

reader(linhas, delimiter) ==
    [k \in 1..Len(linhas) |->
        IF linhas[k] = <<>> THEN <<>> ELSE LerCampos(linhas[k], delimiter, 1, <<>>, FALSE, <<>>)]

\* validar_arquivo_csv
validar_arquivo_csv(arquivo) ==
    IF ~arquivo.existe THEN [valido |-> FALSE, linhas_validas |-> 0, tem_cabecalho |-> FALSE]
    ELSE IF ~arquivo.sniff THEN [valido |-> FALSE, linhas_validas |-> 0, tem_cabecalho |-> FALSE]
    ELSE IF arquivo.linhas = <<>>
    THEN [valido |-> FALSE, linhas_validas |-> 0, tem_cabecalho |-> FALSE]
    ELSE LET tem_cabecalho == _is_header(arquivo.linhas[1])
             inicio        == IF tem_cabecalho THEN 2 ELSE 1
         IN [valido         |-> TRUE,
             linhas_validas |-> Cardinality({k \in inicio..Len(arquivo.linhas) :
                                               Len(arquivo.linhas[k]) >= 4}),
             tem_cabecalho  |-> tem_cabecalho]

\* --------------------------------------------------------- LivrariaService
\* What a call of the service leaves: the file system fs (the live store banco
\* and the backup area backups), the exception raised ("" when it returns),
\* the value returned, the path _criar_backup_automatico returned, and whether
\* a copy2 or an unlink raised on a file system fault during the call.
Resultado(fs, exc, ret, r) ==
    [fs |-> fs, exc |-> exc, ret |-> ret, backup |-> r.ret,
     copia_falhou |-> r.copia_falhou, unlink_falhou |-> r.unlink_falhou]

\* A call that raises before it touches the file system.
Levanta(fs, exc) ==
    [fs |-> fs, exc |-> exc, ret |-> None, backup |-> None,
     copia_falhou |-> FALSE, unlink_falhou |-> FALSE]

\* The live store after a committed write at modification time mt.
Escrito(c, mt) == [existe |-> TRUE, conteudo |-> c, mtime |-> mt]

_criar_backup_automatico(fs, agora) == criar_backup(fs.backups, fs.banco, agora)

\* adicionar_livro taking its snapshot after criar instead of before it.
adicionar_livro_backup_depois(fs, agora, mt, titulo, autor, ano_publicacao, preco) ==
    LET livro == Livro(None, strip(titulo), strip(autor), ano_publicacao, preco)
        salvo == criar(fs.banco.conteudo, livro)
    IN IF validar(livro) # "" THEN {Levanta(fs, "ValueError")}
       ELSE {Resultado([banco |-> Escrito(salvo.c, mt), backups |-> r.bk], "", salvo.id, r)
               : r \in criar_backup(fs.backups, Escrito(salvo.c, mt), agora)}

\* adicionar_livro letting a failed snapshot end the call with an error.
adicionar_livro_backup_obrigatorio(fs, agora, mt, titulo, autor, ano_publicacao, preco) ==
    LET livro == Livro(None, strip(titulo), strip(autor), ano_publicacao, preco)
    IN IF validar(livro) # "" THEN {Levanta(fs, "ValueError")}
       ELSE {IF r.ret = None
             THEN Resultado([fs EXCEPT !.backups = r.bk], "IOError", None, r)
             ELSE LET salvo == criar(fs.banco.conteudo, livro)
                  IN Resultado([banco |-> Escrito(salvo.c, mt), backups |-> r.bk],
                               "", salvo.id, r)
               : r \in _criar_backup_automatico(fs, agora)}

adicionar_livro(fs, agora, mt, titulo, autor, ano_publicacao, preco) ==
    LET livro == Livro(None, strip(titulo), strip(autor), ano_publicacao, preco)
    IN IF validar(livro) # "" THEN {Levanta(fs, "ValueError")}
       ELSE {LET salvo == criar(fs.banco.conteudo, livro)
             IN Resultado([banco |-> Escrito(salvo.c, mt), backups |-> r.bk],
                          "", salvo.id, r)
               : r \in _criar_backup_automatico(fs, agora)}

atualizar_livro(fs, agora, mt, livro) ==
    IF livro.id = None \/ livro.id = 0 THEN {Levanta(fs, "ValueError")}
    ELSE IF buscar_por_id(fs.banco.conteudo, livro.id) = {}
    THEN {Levanta(fs, "NaoEncontrado")}
    ELSE {LET a == atualizar(fs.banco.conteudo, livro)
          IN IF a.exc # ""
             THEN Resultado([fs EXCEPT !.backups = r.bk], a.exc, None, r)
             ELSE Resultado([banco   |-> IF a.ret THEN Escrito(a.c, mt) ELSE fs.banco,
                             backups |-> r.bk],
                            "", IF a.ret THEN 1 ELSE 0, r)
            : r \in _criar_backup_automatico(fs, agora)}

atualizar_preco_livro(fs, agora, mt, livro_id, novo_preco) ==
    IF buscar_por_id(fs.banco.conteudo, livro_id) = {}
    THEN {Levanta(fs, "NaoEncontrado")}
    ELSE IF novo_preco < 0 THEN {Levanta(fs, "ValueError")}
    ELSE {LET a == atualizar_preco(fs.banco.conteudo, livro_id, novo_preco)
          IN Resultado([banco   |-> IF a.ret THEN Escrito(a.c, mt) ELSE fs.banco,
                        backups |-> r.bk],
                       a.exc, IF a.ret THEN 1 ELSE 0, r)
            : r \in _criar_backup_automatico(fs, agora)}

\* remover_livro taking its snapshot before it looks the record up.
remover_livro_backup_primeiro(fs, agora, mt, livro_id) ==
    {IF buscar_por_id(fs.banco.conteudo, livro_id) = {}
     THEN Resultado([fs EXCEPT !.backups = r.bk], "NaoEncontrado", None, r)
     ELSE LET a == deletar(fs.banco.conteudo, livro_id)
          IN Resultado([banco |-> Escrito(a.c, mt), backups |-> r.bk], "", 1, r)
       : r \in _criar_backup_automatico(fs, agora)}

remover_livro(fs, agora, mt, livro_id) ==
    IF buscar_por_id(fs.banco.conteudo, livro_id) = {}
    THEN {Levanta(fs, "NaoEncontrado")}
    ELSE {LET a == deletar(fs.banco.conteudo, livro_id)
          IN Resultado([banco   |-> IF a.ret THEN Escrito(a.c, mt) ELSE fs.banco,
                        backups |-> r.bk],
                       "", IF a.ret THEN 1 ELSE 0, r)
            : r \in _criar_backup_automatico(fs, agora)}

\* The loop keeping the id read from the file: a row with that id is written
\* in the place of any row that has it.
RECURSIVE SalvarLivros_id_do_arquivo(_, _, _, _)
SalvarLivros_id_do_arquivo(livros, k, acc, falhas) ==
    IF k > Len(livros) THEN acc
    ELSE IF k \in falhas THEN SalvarLivros_id_do_arquivo(livros, k + 1, acc, falhas)
    ELSE LET salvo == criar(acc.c, [livros[k] EXCEPT !.id = None])
             posto == [livros |-> {l \in acc.c.livros : l.id # livros[k].id} \cup {livros[k]},
                       seq    |-> IF livros[k].id > acc.c.seq THEN livros[k].id ELSE acc.c.seq]
         IN SalvarLivros_id_do_arquivo(livros, k + 1,
                IF salvo.exc # "" THEN acc
                ELSE [c |-> IF livros[k].id = None THEN salvo.c ELSE posto,
                      livros_salvos |-> acc.livros_salvos + 1],
                falhas)

\* The loop of importar_dados_csv: livro.id = None, criar, count the saved.
\* falhas holds the positions of the records whose INSERT raises a database
\* error: criar's transaction is rolled back and the loop goes on.
RECURSIVE SalvarLivros(_, _, _, _)
SalvarLivros(livros, k, acc, falhas) ==
    IF k > Len(livros) THEN acc
    ELSE IF k \in falhas THEN SalvarLivros(livros, k + 1, acc, falhas)
    ELSE LET salvo == criar(acc.c, [livros[k] EXCEPT !.id = None])
         IN SalvarLivros(livros, k + 1,
                IF salvo.exc = ""
                THEN [c |-> salvo.c, livros_salvos |-> acc.livros_salvos + 1]
                ELSE acc,
                falhas)

importar_dados_csv(fs, agora, mt, arquivo, falhas) ==
    IF ~arquivo.existe THEN {Levanta(fs, "FileNotFoundError")}
    ELSE IF ~validar_arquivo_csv(arquivo).valido THEN {Levanta(fs, "ValueError")}
    ELSE {LET lidos == importar_livros(arquivo)
              s     == SalvarLivros(lidos.livros, 1,
                                    [c |-> fs.banco.conteudo, livros_salvos |-> 0], falhas)
          IN IF lidos.exc # ""
             THEN Resultado([fs EXCEPT !.backups = r.bk], lidos.exc, None, r)
             ELSE Resultado([banco   |-> IF s.livros_salvos > 0 THEN Escrito(s.c, mt)
                                         ELSE fs.banco,
                             backups |-> r.bk],
                            "", s.livros_salvos, r)
            : r \in _criar_backup_automatico(fs, agora)}

\* An entry of the dict filtros: the key is in the dict with this value, or
\* it is not.
Com(val) == [tem |-> TRUE, val |-> val]

Sem(val) == [tem |-> FALSE, val |-> val]

\* 'k' in filtros and filtros['k'], for a text and for a number.
TemTexto(f) == f.tem /\ bool(PyStr(f.val))

TemNumero(f) == f.tem /\ bool(PyInt(f.val))

\* buscar_livros_avancado: the list of buscar_todos_livros() through one list
\* comprehension after another.
buscar_livros_avancado(c, filtros) ==
    {LET f1(l) == ~TemTexto(filtros.autor) \/ Contem(lower(l.autor), lower(filtros.autor.val))
         f2(l) == ~TemTexto(filtros.titulo) \/ Contem(lower(l.titulo), lower(filtros.titulo.val))
         f3(l) == ~TemNumero(filtros.ano_min) \/ l.ano_publicacao >= filtros.ano_min.val
         f4(l) == ~TemNumero(filtros.ano_max) \/ l.ano_publicacao <= filtros.ano_max.val
         f5(l) == ~TemNumero(filtros.preco_min) \/ l.preco >= filtros.preco_min.val
         f6(l) == ~TemNumero(filtros.preco_max) \/ l.preco <= filtros.preco_max.val
     IN SelectSeq(SelectSeq(SelectSeq(SelectSeq(SelectSeq(SelectSeq(
            livros, f1), f2), f3), f4), f5), f6)
       : livros \in buscar_todos(c)}

exportar_dados_csv(exp, c, nome) ==
    UNION {IF livros = <<>>
           THEN {[exports |-> exp, exc |-> "ValueError", ret |-> None, falhou |-> FALSE]}
           ELSE {[exports |-> r.exports, exc |-> "", ret |-> r.ret, falhou |-> r.falhou]
                   : r \in exportar_livros(exp, livros, nome)}
             : livros \in buscar_todos(c)}

criar_backup_manual(fs, agora) ==
    {Resultado([fs EXCEPT !.backups = r.bk], "", r.ret, r)
       : r \in criar_backup(fs.backups, fs.banco, agora)}

\* LivrariaService.restaurar_backup: FileManager.restaurar_backup, then a new
\* DatabaseManager on the restored file (CREATE TABLE IF NOT EXISTS changes
\* nothing in a file that holds the table).
LivrariaService_restaurar_backup(fs, agora, backup_path) ==
    {[fs |-> r.fs, exc |-> "", ret |-> IF r.ret THEN 1 ELSE 0, backup |-> r.backup,
      copia_falhou |-> r.copia_falhou, unlink_falhou |-> r.unlink_falhou]
       : r \in restaurar_backup(fs, backup_path, agora)}

\* ------------------------------------------------------------------ inputs
\* What the caller passes to adicionar_livro: two books, and one input for
\* each check of validar.
EntradasLivro ==
    { << <<"D">>, <<"H">>, 1965, 0 >>,
      << <<" ", "D">>, <<"H", " ">>, 1965, 2990 >>,
      << <<" ">>, <<"H">>, 1965, 0 >>,
      << <<"D">>, <<>>, 1965, 0 >>,
      << <<"D">>, <<"H">>, 999, 0 >>,
      << <<"D">>, <<"H">>, 1965, -1 >> }

Precos == { -1, 0, 2990 }

\* The Livro objects a caller can hold (the constructor validates).
LivrosValidos ==
    {l \in {Livro(id, strip(e[1]), strip(e[2]), e[3], e[4]) :
              id \in {None} \cup (1..(MaxId + 1)), e \in EntradasLivro} : validar(l) = ""}

\* A file read as these rows.  csv.Sniffer finds no delimiter in a file that
\* is empty or has blank lines only, which is one whose rows have no cell.
CSV(linhas) ==
    [existe |-> TRUE, sniff |-> \E k \in 1..Len(linhas) : linhas[k] # <<>>,
     linhas |-> linhas]

ArquivosCSV ==
    { \* the header export writes, then a row with an id
      CSV(<< <<<<"I", "D">>, <<"T">>, <<"A">>, <<"A", "n", "o">>, <<"P">>>>,
             <<<<"7">>, <<"D">>, <<"H">>, <<"1", "9", "6", "5">>, <<"2", "9", ".", "9">>>> >>),
      \* no header: a row, a row whose year is no number, a blank row, a row
      CSV(<< <<<<>>, <<"D">>, <<"H">>, <<"1", "9", "6", "5">>, <<"0">>>>,
             <<<<"1">>, <<"D">>, <<"H">>, <<"x">>, <<"0">>>>,
             <<<<" ">>>>,
             <<<<"2">>, <<"D">>, <<"H">>, <<"1", "9", "6", "5">>, <<"0", ".", "0">>>> >>),
      \* one row of four fields
      CSV(<< <<<<"D">>, <<"H">>, <<"1", "9", "6", "5">>, <<"0">>>> >>),
      \* an empty file, a file csv.Sniffer rejects, a path with no file
      CSV(<<>>),
      [existe |-> TRUE, sniff |-> FALSE, linhas |-> << <<<<"D">>>> >>],
      [existe |-> FALSE, sniff |-> FALSE, linhas |-> <<>>] }

\* ------------------------------------------------------------------- state
VARIABLES
    banco,      \* the live store file data/livraria.db
    backups,    \* the artifacts of the backup area: [nome, conteudo, mtime]
    relogio,    \* the wall clock, in seconds (a backup's name is its second)
    mclock,     \* the latest modification time given to the live store
    ultimo,     \* the last call and what it returned
    atribuidos, \* the ids criar has returned (lastrowid) so far
    entrada,    \* the arguments drawn for a call of a function of Livro or
                \* of CSVManager
    exports,    \* the files of the export area: [nome, linhas]
    conexao     \* the connections to the store: how many are open, and the
                \* transaction of the repository operation in progress

vars == <<banco, backups, relogio, mclock, ultimo, atribuidos, entrada, exports, conexao>>

FS == [banco |-> banco, backups |-> backups]

\* A call: its name, the id (or backup name) and the Livro it was given, and
\* what it left (exc, ret, backup, copia_falhou, unlink_falhou of Resultado).
Chamada(op, id, livro, o) ==
    [op |-> op, id |-> id, livro |-> livro, exc |-> o.exc, ret |-> o.ret,
     backup |-> o.backup, copia_falhou |-> o.copia_falhou,
     unlink_falhou |-> o.unlink_falhou]

\* No repository operation is in progress and no connection is open: what
\* _criar_tabelas leaves when the DatabaseManager is constructed.
Fora ==
    [abertas |-> 0, fase |-> "fora", op |-> "init", id |-> None, livro |-> SemLivro,
     tx |-> _criar_tabelas, exc |-> "", ret |-> None]

\* The service after its construction: a new store, an empty backup area and
\* an empty export area.
Construido ==
    /\ banco = Escrito(_criar_tabelas, 0)
    /\ backups = {}
    /\ relogio = 0
    /\ mclock = 0
    /\ ultimo = Chamada("init", None, SemLivro, Levanta(<<>>, ""))
    /\ atribuidos = {}
    /\ exports = {}
    /\ conexao = Fora

Init ==
    /\ Construido
    /\ entrada = <<>>

\* The ids the INSERTs of a call were given: criar returns seq + 1 each time.
Inseridos(op, c, d) ==
    IF op \in {"criar", "adicionar_livro", "importar_dados_csv"}
    THEN (c.seq + 1)..d.seq
    ELSE {}

\* A call with result o, within the caps: the file system it leaves.
Retorna(op, id, livro, o, maxEscritas, maxId) ==
    /\ o.fs.banco.mtime <= maxEscritas
    /\ o.fs.banco.conteudo.seq <= maxId
    /\ banco' = o.fs.banco
    /\ backups' = o.fs.backups
    /\ mclock' = IF o.fs.banco.mtime > mclock THEN o.fs.banco.mtime ELSE mclock
    /\ ultimo' = Chamada(op, id, livro, o)
    /\ atribuidos' = atribuidos \cup Inseridos(op, banco.conteudo, o.fs.banco.conteudo)
    /\ UNCHANGED <<relogio, entrada, exports, conexao>>

\* A second passes.
Passa(maxRelogio) ==
    /\ relogio < maxRelogio
    /\ relogio' = relogio + 1
    /\ ultimo' = Chamada("tick", None, SemLivro, Levanta(<<>>, ""))
    /\ UNCHANGED <<banco, backups, mclock, atribuidos, entrada, exports, conexao>>

AdicionarLivro ==
    \E e \in EntradasLivro :
        \E o \in adicionar_livro(FS, relogio, mclock + 1, e[1], e[2], e[3], e[4]) :
            Retorna("adicionar_livro", None, Livro(None, strip(e[1]), strip(e[2]), e[3], e[4]),
                    o, MaxEscritas, MaxId)

AtualizarLivro ==
    \E l \in LivrosValidos :
        \E o \in atualizar_livro(FS, relogio, mclock + 1, l) :
            Retorna("atualizar_livro", l.id, l, o, MaxEscritas, MaxId)

AtualizarPrecoLivro ==
    \E id \in 1..(MaxId + 1), p \in Precos :
        \E o \in atualizar_preco_livro(FS, relogio, mclock + 1, id, p) :
            Retorna("atualizar_preco_livro", id, Livro(id, <<>>, <<>>, 0, p), o,
                    MaxEscritas, MaxId)

RemoverLivro ==
    \E id \in 1..(MaxId + 1) :
        \E o \in remover_livro(FS, relogio, mclock + 1, id) :
            Retorna("remover_livro", id, SemLivro, o, MaxEscritas, MaxId)

ImportarDadosCSV ==
    \E arq \in ArquivosCSV :
        \E o \in importar_dados_csv(FS, relogio, mclock + 1, arq, {}) :
            Retorna("importar_dados_csv", None, SemLivro, o, MaxEscritas, MaxId)

CriarBackupManual ==
    \E o \in criar_backup_manual(FS, relogio) :
        Retorna("criar_backup_manual", None, SemLivro, o, MaxEscritas, MaxId)

\* FileManager.criar_backup(source_path) on a path that holds no file.
CriarBackupDe ==
    \E r \in criar_backup(backups, Inexistente, relogio) :
        Retorna("criar_backup_inexistente", None, SemLivro,
                Resultado([FS EXCEPT !.backups = r.bk], "", r.ret, r), MaxEscritas, MaxId)

RestaurarBackup ==
    \E nome \in 0..MaxRelogio :
        \E o \in LivrariaService_restaurar_backup(FS, relogio, nome) :
            Retorna("restaurar_backup", nome, SemLivro, o, MaxEscritas, MaxId)

Tick == Passa(MaxRelogio)

Next ==
    \/ AdicionarLivro
    \/ AtualizarLivro
    \/ AtualizarPrecoLivro
    \/ RemoverLivro
    \/ ImportarDadosCSV
    \/ CriarBackupManual
    \/ CriarBackupDe
    \/ RestaurarBackup
    \/ Tick

Spec == Init /\ [][Next]_vars

\* ------------------------------------------- the backup area over many seconds
\* The same service on one book: it is added, removed, snapshots are taken by
\* hand and restored while the clock runs through MaxRelogioBackup seconds.
\* No copy2 faults here (Spec has them); an unlink may fail.
BackupAdicionar ==
    \E o \in adicionar_livro(FS, relogio, mclock + 1, <<"D">>, <<"H">>, 1965, 0) :
        ~o.copia_falhou /\ Retorna("adicionar_livro", None, Livro(None, <<"D">>, <<"H">>, 1965, 0), o,
                                   MaxEscritasBackup, MaxIdBackup)

BackupRemover ==
    \E id \in 1..MaxIdBackup :
        \E o \in remover_livro(FS, relogio, mclock + 1, id) :
            ~o.copia_falhou /\ Retorna("remover_livro", id, SemLivro, o, MaxEscritasBackup, MaxIdBackup)

BackupManual ==
    \E o \in criar_backup_manual(FS, relogio) :
        ~o.copia_falhou
            /\ Retorna("criar_backup_manual", None, SemLivro, o, MaxEscritasBackup, MaxIdBackup)

BackupRestaurar ==
    \E nome \in 0..MaxRelogioBackup :
        \E o \in LivrariaService_restaurar_backup(FS, relogio, nome) :
            ~o.copia_falhou
                /\ Retorna("restaurar_backup", nome, SemLivro, o, MaxEscritasBackup, MaxIdBackup)

BackupTick == Passa(MaxRelogioBackup)

NextBackup ==
    \/ BackupAdicionar
    \/ BackupRemover
    \/ BackupManual
    \/ BackupRestaurar
    \/ BackupTick

SpecBackup == Init /\ [][NextBackup]_vars

\* ------------------------------------------------ the FileManager on its own
\* FileManager's calls on a store that is not written: criar_backup of the
\* live store and of a path that holds no file, and restaurar_backup.
AreaCriarBackup ==
    \E fonte \in {banco, Inexistente} :
        \E r \in criar_backup(backups, fonte, relogio) :
            Retorna(IF fonte.existe THEN "criar_backup" ELSE "criar_backup_inexistente",
                    None, SemLivro, Resultado([FS EXCEPT !.backups = r.bk], "", r.ret, r),
                    MaxEscritas, MaxId)

AreaRestaurarBackup ==
    \E nome \in 0..MaxRelogioArea :
        \E r \in restaurar_backup(FS, nome, relogio) :
            Retorna("restaurar_backup", nome, SemLivro,
                    [fs |-> r.fs, exc |-> "", ret |-> IF r.ret THEN 1 ELSE 0,
                     backup |-> r.backup, copia_falhou |-> r.copia_falhou,
                     unlink_falhou |-> r.unlink_falhou],
                    MaxEscritas, MaxId)

AreaTick == Passa(MaxRelogioArea)

NextArea ==
    \/ AreaCriarBackup
    \/ AreaRestaurarBackup
    \/ AreaTick

SpecArea == Init /\ [][NextArea]_vars

\* ------------------------------------- the repository and the record operations
\* LivroRepository called directly, and the service's price change, removal
\* and import, on one store in one clock second.
\* The Livro objects handed to the repository: a caller can change the fields
\* of an object after its construction, so they need not be valid.
EntradasRepo ==
    { << <<"D">>, <<"H">>, 1965, 0 >>,
      << <<" ", "D">>, <<"H", " ">>, AnoAtual + 1, 2990 >>,
      << <<"D">>, <<" ">>, 1965, -1 >> }

LivrosRepo(ids) ==
    {Livro(id, e[1], e[2], e[3], e[4]) : id \in ids, e \in EntradasRepo}

\* What a call of the repository leaves: the store is written when a
\* statement changed a row.
RetornaRepo(op, id, livro, c, exc, ret) ==
    Retorna(op, id, livro,
            [fs |-> [FS EXCEPT !.banco = IF c = banco.conteudo THEN banco
                                          ELSE Escrito(c, mclock + 1)],
             exc |-> exc, ret |-> ret, backup |-> None,
             copia_falhou |-> FALSE, unlink_falhou |-> FALSE],
            MaxEscritasRepo, MaxIdRepo)

RepoCriar ==
    \E l \in LivrosRepo({None}) :
        LET r == criar(banco.conteudo, l)
        IN RetornaRepo("criar", None, [l EXCEPT !.id = r.id], r.c, r.exc, r.id)

RepoBuscarPorId ==
    \E id \in 1..(MaxIdRepo + 1) :
        LET r == buscar_por_id(banco.conteudo, id)
        IN RetornaRepo("buscar_por_id", id,
                       IF r = {} THEN SemLivro ELSE CHOOSE l \in r : TRUE,
                       banco.conteudo, "", IF r = {} THEN None ELSE id)

RepoAtualizar ==
    \E l \in LivrosRepo({None} \cup (1..(MaxIdRepo + 1))) :
        LET r == atualizar(banco.conteudo, l)
        IN RetornaRepo("atualizar", l.id, l, r.c, r.exc, IF r.ret THEN 1 ELSE 0)

RepoAtualizarPreco ==
    \E id \in 1..(MaxIdRepo + 1), p \in Precos :
        LET r == atualizar_preco(banco.conteudo, id, p)
        IN RetornaRepo("atualizar_preco", id, Livro(id, <<>>, <<>>, 0, p), r.c, r.exc,
                       IF r.ret THEN 1 ELSE 0)

RepoDeletar ==
    \E id \in 1..(MaxIdRepo + 1) :
        LET r == deletar(banco.conteudo, id)
        IN RetornaRepo("deletar", id, SemLivro, r.c, "", IF r.ret THEN 1 ELSE 0)

RepoContarLivros ==
    RetornaRepo("contar_livros", None, SemLivro, banco.conteudo, "",
                contar_livros(banco.conteudo))

ServicoAtualizarPreco ==
    \E id \in 1..(MaxIdRepo + 1), p \in Precos :
        \E o \in atualizar_preco_livro(FS, relogio, mclock + 1, id, p) :
            Retorna("atualizar_preco_livro", id, Livro(id, <<>>, <<>>, 0, p), o,
                    MaxEscritasRepo, MaxIdRepo)

ServicoRemover ==
    \E id \in 1..(MaxIdRepo + 1) :
        \E o \in remover_livro(FS, relogio, mclock + 1, id) :
            Retorna("remover_livro", id, SemLivro, o, MaxEscritasRepo, MaxIdRepo)

ServicoImportar ==
    \E arq \in ArquivosCSV :
        \E o \in importar_dados_csv(FS, relogio, mclock + 1, arq, {}) :
            Retorna("importar_dados_csv", None, SemLivro, o, MaxEscritasRepo, MaxIdRepo)

NextRepo ==
    \/ RepoCriar
    \/ RepoBuscarPorId
    \/ RepoAtualizar
    \/ RepoAtualizarPreco
    \/ RepoDeletar
    \/ RepoContarLivros
    \/ ServicoAtualizarPreco
    \/ ServicoRemover
    \/ ServicoImportar

SpecRepo == Init /\ [][NextRepo]_vars

\* ------------------------------------------------------ the functions of Livro
\* The texts of at most n characters over a letter and a blank.
RECURSIVE Textos(_)
Textos(n) ==
    IF n = 0 THEN {<<>>}
    ELSE Textos(n - 1) \cup {Append(t, c) : t \in {u \in Textos(n - 1) : Len(u) = n - 1},
                                           c \in {"D", " "}}

\* The arguments of the constructor: an id or None, title, author, year and
\* price (in cents), on both sides of each bound of validar.
ArgumentosLivro ==
    [id             : {None, 1, 7},
     titulo         : Textos(MaxTexto),
     autor          : Textos(MaxTexto),
     ano_publicacao : {999, 1000, 1965, AnoAtual + 1, AnoAtual + 2},
     preco          : {-1, 0, 2990}]

InitLivro ==
    /\ Construido
    /\ entrada \in ArgumentosLivro

\* A call of a function: its name, the object or the exception it gave, and
\* the number of fields of the row it was given.
Funcao(op, n, r) ==
    Chamada(op, None, r.livro, [Levanta(<<>>, r.exc) EXCEPT !.ret = n])

\* Livro(titulo, autor, ano_publicacao, preco, id)
Construir ==
    /\ ultimo' = Funcao("Livro", 0,
                        __post_init__(Livro(entrada.id, entrada.titulo, entrada.autor,
                                            entrada.ano_publicacao, entrada.preco)))
    /\ UNCHANGED <<banco, backups, relogio, mclock, atribuidos, entrada, exports, conexao>>

\* Livro.from_csv_row(livro.to_csv_row()) for a Livro that was constructed.
ToCsvRowFromCsvRow ==
    LET c == __post_init__(Livro(entrada.id, entrada.titulo, entrada.autor,
                                 entrada.ano_publicacao, entrada.preco))
    IN /\ c.exc = ""
       /\ ultimo' = Funcao("to_csv_row", Len(to_csv_row(c.livro)),
                           from_csv_row(to_csv_row(c.livro)))
       /\ UNCHANGED <<banco, backups, relogio, mclock, atribuidos, entrada, exports, conexao>>

\* The cells of a row of a CSV file that carries the arguments: the texts of
\* the year and the price, and the id's text (empty for None) in a row of 5.
LinhaDe(e, n) ==
    LET campos == << PyStr(e.titulo), PyStr(e.autor),
                     PyStr(str(PyInt(e.ano_publicacao))), PyStr(str(PyFloat(e.preco))) >>
    IN IF n = 4 THEN campos
       ELSE << PyStr(IF e.id = None THEN <<>> ELSE str(PyInt(e.id))) >> \o campos

\* Livro.from_csv_row(row) on a row of four and on a row of five fields.
FromCsvRow ==
    \E n \in {4, 5} :
        /\ ultimo' = Funcao("from_csv_row", n, from_csv_row(LinhaDe(entrada, n)))
        /\ UNCHANGED <<banco, backups, relogio, mclock, atribuidos, entrada, exports, conexao>>

NextLivro ==
    \/ Construir
    \/ ToCsvRowFromCsvRow
    \/ FromCsvRow

SpecLivro == InitLivro /\ [][NextLivro]_vars

\* ------------------------------------------------- the functions of CSVManager
\* The rows a file is made of, as csv.reader yields them: the header export
\* writes, rows of five and of four fields, a row of four whose title holds
\* an indicator inside a word, a row whose year is no number, a row of one
\* blank cell, a row of empty cells and the empty row of a blank line.
LinhasCSV ==
    { <<<<"I", "D">>, <<"T">>, <<"A">>, <<"A", "n", "o">>, <<"P">>>>,
      <<<<"R", "i", "d", "e">>, <<"H">>, <<"1", "9", "6", "5">>, <<"0">>>>,
      <<<<"7">>, <<"D">>, <<"H">>, <<"1", "9", "6", "5">>, <<"2", "9", ".", "9">>>>,
      <<<<>>, <<"E">>, <<"H">>, <<"2", "0", "0", "1">>, <<"0">>>>,
      <<<<"D">>, <<"H">>, <<"1", "9", "6", "5">>, <<"1", "5", "0", "0">>>>,
      <<<<"1">>, <<"D">>, <<"H">>, <<"x">>, <<"0">>>>,
      <<<<" ">>>>,
      <<<<>>, <<>>, <<>>, <<>>, <<>>>>,
      <<>> }

RECURSIVE Arquivos(_)
Arquivos(n) ==
    IF n = 0 THEN {<<>>}
    ELSE Arquivos(n - 1) \cup {Append(a, l) : a \in {b \in Arquivos(n - 1) : Len(b) = n - 1},
                                             l \in LinhasCSV}

InitCSV ==
    /\ Construido
    /\ entrada \in {CSV(a) : a \in Arquivos(MaxLinhas)}

\* CSVManager.importar_livros(csv_path)
ImportarLivros ==
    LET r == importar_livros(entrada)
    IN /\ ultimo' = [op |-> "importar_livros", exc |-> r.exc, livros |-> r.livros,
                     linhas_com_erro |-> r.linhas_com_erro]
       /\ UNCHANGED <<banco, backups, relogio, mclock, atribuidos, entrada, exports, conexao>>

\* CSVManager.validar_arquivo_csv(csv_path)
ValidarArquivoCSV ==
    LET r == validar_arquivo_csv(entrada)
    IN /\ ultimo' = [op |-> "validar_arquivo_csv", exc |-> "", valido |-> r.valido,
                     linhas_validas |-> r.linhas_validas,
                     tem_cabecalho |-> r.tem_cabecalho]
       /\ UNCHANGED <<banco, backups, relogio, mclock, atribuidos, entrada, exports, conexao>>

NextCSV ==
    \/ ImportarLivros
    \/ ValidarArquivoCSV

SpecCSV == InitCSV /\ [][NextCSV]_vars

\* ------------------------------------------- the repository's transactions
\* A repository operation in two steps: it enters get_connection and its body
\* runs its statement, then it leaves get_connection.  cursor.execute and
\* conn.commit can raise a database error.
MaxIdConexao == 2

MaxEscritasConexao == 2

\* sqlite3.connect, the yield, and the body's statement: r is what the
\* statement does to the table; with execute_falha it raises and writes
\* nothing.  An operation that raises before its 'with' (validar, or the test
\* of the price) opens no connection.
ConexaoEntra(op, id, livro, r, execute_falha) ==
    /\ conexao.fase = "fora"
    /\ IF r.exc # ""
       THEN /\ ultimo' = Chamada(op, id, livro, Levanta(<<>>, r.exc))
            /\ UNCHANGED <<banco, backups, relogio, mclock, atribuidos, entrada, exports,
                           conexao>>
       ELSE /\ conexao' = [abertas |-> conexao.abertas + 1, fase |-> "dentro", op |-> op,
                            id |-> id, livro |-> livro,
                            tx  |-> IF execute_falha THEN banco.conteudo ELSE r.c,
                            exc |-> IF execute_falha THEN "sqlite3.Error" ELSE "",
                            ret |-> r.ret]
            /\ UNCHANGED <<banco, backups, relogio, mclock, ultimo, atribuidos, entrada, exports>>

ConexaoCriar ==
    \E l \in LivrosRepo({None}), execute_falha \in BOOLEAN :
        LET r == criar(banco.conteudo, l)
        IN ConexaoEntra("criar", None, [l EXCEPT !.id = r.id],
                        [c |-> r.c, exc |-> r.exc, ret |-> r.id], execute_falha)

ConexaoAtualizarPreco ==
    \E id \in 1..MaxIdConexao, p \in Precos, execute_falha \in BOOLEAN :
        ConexaoEntra("atualizar_preco", id, Livro(id, <<>>, <<>>, 0, p),
                     atualizar_preco(banco.conteudo, id, p), execute_falha)

ConexaoDeletar ==
    \E id \in 1..MaxIdConexao, execute_falha \in BOOLEAN :
        LET r == deletar(banco.conteudo, id)
        IN ConexaoEntra("deletar", id, SemLivro,
                        [c |-> r.c, exc |-> "", ret |-> IF r.ret THEN 1 ELSE 0], execute_falha)

ConexaoContarLivros ==
    \E execute_falha \in BOOLEAN :
        ConexaoEntra("contar_livros", None, SemLivro,
                     [c |-> banco.conteudo, exc |-> "", ret |-> contar_livros(banco.conteudo)],
                     execute_falha)

\* The end of the 'with': commit or rollback, close, and the operation returns
\* or raises.
ConexaoSai ==
    /\ conexao.fase = "dentro"
    /\ \E commit_falha \in BOOLEAN :
          LET g == get_connection(banco.conteudo, conexao.tx, conexao.exc, commit_falha)
              b == IF g.c = banco.conteudo THEN banco ELSE Escrito(g.c, mclock + 1)
          IN /\ b.mtime <= MaxEscritasConexao
             /\ g.c.seq <= MaxIdConexao
             /\ banco' = b
             /\ mclock' = b.mtime
             /\ atribuidos' = atribuidos \cup Inseridos(conexao.op, banco.conteudo, g.c)
             /\ conexao' = [conexao EXCEPT !.fase = "fora", !.abertas = @ - g.fechadas]
             /\ ultimo' = Chamada(conexao.op, conexao.id, conexao.livro,
                                  [Levanta(<<>>, g.exc) EXCEPT
                                      !.ret = IF g.exc = "" THEN conexao.ret ELSE None])
    /\ UNCHANGED <<backups, relogio, entrada, exports>>

NextConexao ==
    \/ ConexaoCriar
    \/ ConexaoAtualizarPreco
    \/ ConexaoDeletar
    \/ ConexaoContarLivros
    \/ ConexaoSai

SpecConexao == Init /\ [][NextConexao]_vars

\* ------------------------------------------------------------ the bulk import
\* LivrariaService.importar_dados_csv on one file, with the INSERTs that fail
\* drawn with it (falhas, among the first two records read), on a store that
\* criar, deletar and earlier imports have filled.
MaxIdImport == 3

MaxEscritasImport == 3

\* The files, and one whose rows carry the ids 7 and 1.
ArquivosImport ==
    ArquivosCSV \cup
    { CSV(<< <<<<"I", "D">>, <<"T">>, <<"A">>, <<"A", "n", "o">>, <<"P">>>>,
             <<<<"7">>, <<"D">>, <<"H">>, <<"1", "9", "6", "5">>, <<"2", "9", ".", "9">>>>,
             <<<<"1">>, <<"E">>, <<"H">>, <<"2", "0", "0", "1">>, <<"0">>>> >>) }

InitImport ==
    /\ Construido
    /\ entrada \in [arquivo : ArquivosImport, falhas : SUBSET (1..2)]

ImportCriar ==
    LET l == Livro(None, <<"F">>, <<"H">>, 1951, 2450)
        r == criar(banco.conteudo, l)
    IN Retorna("criar", None, [l EXCEPT !.id = r.id],
               [fs |-> [FS EXCEPT !.banco = Escrito(r.c, mclock + 1)],
                exc |-> r.exc, ret |-> r.id, backup |-> None,
                copia_falhou |-> FALSE, unlink_falhou |-> FALSE],
               MaxEscritasImport, MaxIdImport)

ImportImportar ==
    \E o \in importar_dados_csv(FS, relogio, mclock + 1, entrada.arquivo, entrada.falhas) :
        Retorna("importar_dados_csv", None, SemLivro, o, MaxEscritasImport, MaxIdImport)

ImportDeletar ==
    \E id \in 1..MaxIdImport :
        LET r == deletar(banco.conteudo, id)
        IN /\ r.ret
           /\ Retorna("deletar", id, SemLivro,
                      [fs |-> [FS EXCEPT !.banco = Escrito(r.c, mclock + 1)],
                       exc |-> "", ret |-> 1, backup |-> None,
                       copia_falhou |-> FALSE, unlink_falhou |-> FALSE],
                      MaxEscritasImport, MaxIdImport)

NextImport ==
    \/ ImportCriar
    \/ ImportImportar
    \/ ImportDeletar

SpecImport == InitImport /\ [][NextImport]_vars

\* ------------------------------------------------- search and statistics
\* The advanced search and the statistics on a store that criar and deletar
\* have filled.
MaxIdBusca == 2

MaxEscritasBusca == 2

\* Two priced books and a free one whose texts are in lower case.
LivrosBusca ==
    { Livro(None, <<"D", "e">>, <<"H", "a">>, 1965, 2990),
      Livro(None, <<"F", "o">>, <<"A", "d">>, 1951, 2450),
      Livro(None, <<"e", "d">>, <<"h", "a">>, 2001, 0) }

\* The dicts given: each key absent or present, the texts also empty and the
\* bounds also 0.
Filtros ==
    [autor     : {Sem(<<>>), Com(<<>>), Com(<<"H">>)},
     titulo    : {Sem(<<>>), Com(<<"E">>)},
     ano_min   : {Sem(0), Com(1965)},
     ano_max   : {Sem(0), Com(0), Com(1965)},
     preco_min : {Sem(0), Com(0)},
     preco_max : {Sem(0), Com(0), Com(2450)}]

BuscaCriar ==
    \E l \in LivrosBusca :
        LET r == criar(banco.conteudo, l)
        IN Retorna("criar", None, [l EXCEPT !.id = r.id],
                   [fs |-> [FS EXCEPT !.banco = Escrito(r.c, mclock + 1)],
                    exc |-> r.exc, ret |-> r.id, backup |-> None,
                    copia_falhou |-> FALSE, unlink_falhou |-> FALSE],
                   MaxEscritasBusca, MaxIdBusca)

BuscaDeletar ==
    \E id \in 1..MaxIdBusca :
        LET r == deletar(banco.conteudo, id)
        IN /\ r.ret
           /\ Retorna("deletar", id, SemLivro,
                      [fs |-> [FS EXCEPT !.banco = Escrito(r.c, mclock + 1)],
                       exc |-> "", ret |-> 1, backup |-> None,
                       copia_falhou |-> FALSE, unlink_falhou |-> FALSE],
                      MaxEscritasBusca, MaxIdBusca)

\* LivrariaService.buscar_livros_avancado(filtros)
BuscarLivrosAvancado ==
    \E filtros \in Filtros :
        \E r \in buscar_livros_avancado(banco.conteudo, filtros) :
            /\ ultimo' = [op |-> "buscar_livros_avancado", filtros |-> filtros, ret |-> r]
            /\ UNCHANGED <<banco, backups, relogio, mclock, atribuidos, entrada, exports, conexao>>

\* LivroRepository.buscar_estatisticas()
BuscarEstatisticas ==
    /\ ultimo' = [op |-> "buscar_estatisticas", ret |-> buscar_estatisticas(banco.conteudo)]
    /\ UNCHANGED <<banco, backups, relogio, mclock, atribuidos, entrada, exports, conexao>>

NextBusca ==
    \/ BuscaCriar
    \/ BuscaDeletar
    \/ BuscarLivrosAvancado
    \/ BuscarEstatisticas

SpecBusca == Init /\ [][NextBusca]_vars

\* ------------------------------------------------------ export and re-import
\* CSVManager.exportar_livros on a list of Livro objects, importar_livros on
\* the file it wrote, and the service's exportar_dados_csv on a store that holds
\* nothing or the first Livro of the list.
MaxExport == 2

MaxRelogioExport == 1

\* Books whose titles are plain, with a comma, with a quote and with a quoted
\* word between blanks.
LivrosExport(id) ==
    {Livro(id, t, <<"H">>, 1965, p) :
        t \in { <<"D">>, <<"D", ",", " ", "E">>, <<"D", "\"", "E">>,
                <<"A", " ", "'", "D", "'", " ", "E">> },
        p \in {0, 2990}}

\* The lists of at most n Livro objects: read from a store (the k-th has id
\* k) or built by the caller without ids.
RECURSIVE ListasExport(_, _)
ListasExport(n, comId) ==
    IF n = 0 THEN {<<>>}
    ELSE ListasExport(n - 1, comId)
         \cup {Append(a, l) : a \in {b \in ListasExport(n - 1, comId) : Len(b) = n - 1},
                              l \in LivrosExport(IF comId THEN n ELSE None)}

InitExport ==
    /\ Construido
    /\ entrada \in ListasExport(MaxExport, TRUE) \cup ListasExport(MaxExport, FALSE)

\* CSVManager.exportar_livros(livros) with the name of the clock's second.
ExportarLivros ==
    \E r \in exportar_livros(exports, entrada, relogio) :
        /\ exports' = r.exports
        /\ ultimo' = [op |-> "exportar_livros", exc |-> "", ret |-> r.ret,
                      livros |-> <<>>, linhas_com_erro |-> <<>>]
        /\ UNCHANGED <<banco, backups, relogio, mclock, atribuidos, entrada, conexao>>

\* CSVManager.importar_livros(csv_path) on the path exportar_livros returned.
ImportarExportado ==
    /\ ultimo.op = "exportar_livros"
    /\ ultimo.ret # None
    /\ \E f \in exports :
          /\ f.nome = ultimo.ret
          /\ LET r == importar_livros([existe |-> TRUE, sniff |-> TRUE,
                                       linhas |-> reader(f.linhas, sniff(f.linhas))])
             IN ultimo' = [op |-> "importar_livros", exc |-> r.exc, ret |-> f.nome,
                           livros |-> r.livros, linhas_com_erro |-> r.linhas_com_erro]
    /\ UNCHANGED <<banco, backups, relogio, mclock, atribuidos, entrada, exports, conexao>>

\* LivroRepository.criar of the first Livro of the list, on the empty store.
ExportCriar ==
    /\ entrada # <<>>
    /\ banco.conteudo.livros = {}
    /\ LET l == [entrada[1] EXCEPT !.id = None]
           r == criar(banco.conteudo, l)
       IN RetornaRepo("criar", None, [l EXCEPT !.id = r.id], r.c, r.exc, r.id)

\* LivrariaService.exportar_dados_csv() with the name of the clock's second.
ExportarDadosCSV ==
    \E r \in exportar_dados_csv(exports, banco.conteudo, relogio) :
        /\ exports' = r.exports
        /\ ultimo' = [op |-> "exportar_dados_csv", exc |-> r.exc, ret |-> r.ret,
                      livros |-> <<>>, linhas_com_erro |-> <<>>]
        /\ UNCHANGED <<banco, backups, relogio, mclock, atribuidos, entrada, conexao>>

ExportTick == Passa(MaxRelogioExport)

NextExport ==
    \/ ExportarLivros
    \/ ImportarExportado
    \/ ExportCriar
    \/ ExportarDadosCSV
    \/ ExportTick

SpecExport == InitExport /\ [][NextExport]_vars

\* ------------------------------------------------------------------ claims
Nomes(bk) == {b.nome : b \in bk}

Mutacoes ==
    {"adicionar_livro", "atualizar_livro", "atualizar_preco_livro", "remover_livro",
     "importar_dados_csv"}

\* C1: in every call of add, update, price-change, delete or import that
\* writes the store, the snapshot was attempted (it returned a path or its
\* copy2 raised), and the artifact a successful snapshot made holds the
\* content and the modification time the store had before the call's write.
C1_BackupAntesDaEscrita ==
    [][(ultimo'.op \in Mutacoes /\ banco'.mtime > mclock)
         => /\ ultimo'.backup # None \/ ultimo'.copia_falhou
            /\ \A b \in Artefato(backups', ultimo'.backup) :
                   b.conteudo = banco.conteudo /\ b.mtime = banco.mtime]_vars

\* C1 witness: a delete wrote the store and its snapshot holds the record it removed.
C1_Witness ==
    /\ ultimo.op = "remover_livro" /\ ultimo.ret = 1 /\ ultimo.backup # None
    /\ \E b \in Artefato(backups, ultimo.backup) :
           ultimo.id \in Ids(b.conteudo) /\ ultimo.id \notin Ids(banco.conteudo)

\* C2: update, price-change and delete of an id that is not in the store end
\* with the not-found error and change neither the store nor the backup area.
C2_NaoEncontradoNadaMuda ==
    [][(/\ ultimo'.op \in {"atualizar_livro", "atualizar_preco_livro", "remover_livro"}
        /\ ultimo'.id >= 1
        /\ ultimo'.id \notin Ids(banco.conteudo))
         => /\ ultimo'.exc = "NaoEncontrado"
            /\ ultimo'.backup = None
            /\ banco' = banco
            /\ backups' = backups]_vars

\* C2 witness: a price change of an unknown id failed while the store holds a
\* record and the backup area an artifact.
C2_Witness ==
    /\ ultimo.op = "atualizar_preco_livro" /\ ultimo.exc = "NaoEncontrado"
    /\ ultimo.id \notin Ids(banco.conteudo)
    /\ banco.conteudo.livros # {} /\ backups # {}

\* C3: whenever a snapshot returns a path (and no unlink failed in its
\* pruning), the backup area holds at most manter artifacts and every artifact
\* the call removed was created before every artifact it kept; a backup's
\* name is the second of its creation.
C3_RetencaoMaisRecentes ==
    [][(ultimo'.op = "criar_backup" /\ ultimo'.ret # None /\ ~ultimo'.unlink_falhou)
         => /\ Cardinality(backups') <= manter
            /\ \A p \in (Nomes(backups) \cup {ultimo'.ret}) \ Nomes(backups') :
                   \A k \in Nomes(backups') : p < k]_vars

\* C4: restaurar_backup of a backup that listar_backups returns, with no file
\* system fault in the call, returns True and leaves in the live store the
\* content that backup had when the call began.
C4_RestauraConteudoDoBackup ==
    [][(/\ ultimo'.op = "restaurar_backup"
        /\ ultimo'.id \in listar_backups(backups)
        /\ ~ultimo'.copia_falhou /\ ~ultimo'.unlink_falhou)
         => /\ ultimo'.ret = 1
            /\ \A b \in Artefato(backups, ultimo'.id) : banco'.conteudo = b.conteudo]_vars

\* C5: after a restore that returns True (no copy2 or unlink having failed in
\* the call), the backup area holds an artifact whose content is the content
\* the live store had just before the restore.
C5_RestauraGuardaConteudoAnterior ==
    [][(/\ ultimo'.op = "restaurar_backup" /\ ultimo'.ret = 1
        /\ ~ultimo'.copia_falhou /\ ~ultimo'.unlink_falhou)
         => \E b \in backups' : b.conteudo = banco.conteudo]_vars

\* C6: restaurar_backup of a backup that does not exist returns False, takes
\* no safety snapshot and changes neither the live store nor the backup area.
C6_RestaurarInexistenteNadaMuda ==
    [][(ultimo'.op = "restaurar_backup" /\ ultimo'.id \notin listar_backups(backups))
         => /\ ultimo'.ret = 0
            /\ ultimo'.backup = None
            /\ banco' = banco
            /\ backups' = backups]_vars

\* C6 witness: a restore of a missing backup returned False while the backup
\* area holds another artifact, whose content differs from the live store's.
C6_Witness ==
    /\ ultimo.op = "restaurar_backup" /\ ultimo.ret = 0
    /\ ultimo.id \notin listar_backups(backups)
    /\ \E b \in backups : b.conteudo # banco.conteudo

\* C7: an artifact's content never changes between its creation and its
\* deletion, whatever the calls and the clock seconds they run in.
C7_BackupImutavel ==
    [][\A b \in backups : \A n \in Artefato(backups', b.nome) :
           n.conteudo = b.conteudo]_vars

\* C8: criar_backup of a source that does not exist returns None, and the
\* backup area is unchanged: no artifact is created and none is pruned.
C8_FonteInexistenteNadaMuda ==
    [][ultimo'.op = "criar_backup_inexistente"
         => /\ ultimo'.exc = "" /\ ultimo'.ret = None
            /\ backups' = backups
            /\ banco' = banco]_vars

\* C8 witness: the call returned None while the backup area holds more than
\* manter artifacts, which a pruning would cut.
C8_Witness ==
    /\ ultimo.op = "criar_backup_inexistente" /\ ultimo.ret = None
    /\ Cardinality(backups) > manter

\* C9: when an unlink fails during the pruning a snapshot triggers, every
\* other artifact beyond the newest manter is still deleted: the failed one
\* apart, at most manter artifacts remain.
C9_FalhaNaoInterrompeLimpeza ==
    [][(ultimo'.op = "criar_backup" /\ ultimo'.unlink_falhou)
         => Cardinality(backups') <= manter + 1]_vars

\* C10: when the automatic snapshot fails on a copy fault, add, update,
\* price-change, delete and import still return normally and the store holds
\* their mutation.
C10_FalhaDeBackupNaoBloqueia ==
    [][(ultimo'.op \in Mutacoes /\ ultimo'.copia_falhou)
         => /\ ultimo'.exc = "" /\ ultimo'.backup = None
            /\ backups' = backups
            /\ ultimo'.op = "adicionar_livro"
                 => /\ ultimo'.ret \notin Ids(banco.conteudo)
                    /\ [ultimo'.livro EXCEPT !.id = ultimo'.ret] \in banco'.conteudo.livros
                    /\ banco'.mtime > mclock
            /\ ultimo'.op = "atualizar_livro"
                 => ultimo'.ret = 1 /\ ultimo'.livro \in banco'.conteudo.livros
                    /\ banco'.mtime > mclock
            /\ ultimo'.op = "atualizar_preco_livro"
                 => /\ ultimo'.ret = 1 /\ banco'.mtime > mclock
                    /\ \A l \in buscar_por_id(banco'.conteudo, ultimo'.id) :
                           l.preco = ultimo'.livro.preco
            /\ ultimo'.op = "remover_livro"
                 => /\ ultimo'.ret = 1 /\ banco'.mtime > mclock
                    /\ ultimo'.id \in Ids(banco.conteudo)
                    /\ ultimo'.id \notin Ids(banco'.conteudo)
            /\ ultimo'.op = "importar_dados_csv"
                 => contar_livros(banco'.conteudo)
                      = contar_livros(banco.conteudo) + ultimo'.ret]_vars

\* C10 witness: an add whose snapshot failed on the copy returned the new id,
\* and the store holds the record.
C10_Witness ==
    /\ ultimo.op = "adicionar_livro" /\ ultimo.copia_falhou /\ ultimo.exc = ""
    /\ ultimo.backup = None
    /\ ultimo.ret \in Ids(banco.conteudo)

\* The ids a call of criar or of the import gave to the records it inserted.
Novos ==
    IF ultimo'.op = "criar" THEN {ultimo'.ret}
    ELSE Ids(banco'.conteudo) \ Ids(banco.conteudo)

\* C11: over creates, deletes and imports on a store, every id a create
\* assigns (criar called directly, or by the import for each record it saves)
\* is greater than every id assigned before, those of deleted records
\* included; an import assigns as many ids as it reports records saved.
C11_IdsEstritamenteCrescentes ==
    [][(ultimo'.op \in {"criar", "importar_dados_csv"} /\ ultimo'.exc = "")
         => /\ \A i \in Novos : \A j \in atribuidos \cup Ids(banco.conteudo) : i > j
            /\ ultimo'.op = "importar_dados_csv" => Cardinality(Novos) = ultimo'.ret]_vars

\* C11 witness: a create returned id 2 after the record with id 1 was deleted.
C11_Witness ==
    /\ ultimo.op = "criar" /\ ultimo.exc = "" /\ ultimo.ret = 2
    /\ 1 \in atribuidos /\ 1 \notin Ids(banco.conteudo)

\* C12: right after a create that succeeded, findById of the id it returned
\* gives exactly one record, equal to the returned one in id, title, author,
\* year and price.
C12_LerOQueEscreveu ==
    (ultimo.op = "criar" /\ ultimo.exc = "")
        => /\ ultimo.livro.id = ultimo.ret
           /\ buscar_por_id(banco.conteudo, ultimo.ret) = {ultimo.livro}

\* C12 witness: a create of a record whose title has surrounding whitespace
\* succeeded.
C12_Witness ==
    /\ ultimo.op = "criar" /\ ultimo.exc = ""
    /\ ultimo.livro.titulo = <<" ", "D">>
    /\ ultimo.livro \in banco.conteudo.livros

\* C13: a price change to a negative price raises the validation error and
\* leaves the store as it was: at the repository for any id, at the service
\* for the id of a stored record (where no snapshot is taken either).
C13_PrecoNegativoRejeitado ==
    [][/\ (ultimo'.op = "atualizar_preco" /\ ultimo'.livro.preco < 0)
            => ultimo'.exc = "ValueError" /\ banco' = banco
       /\ (ultimo'.op = "atualizar_preco_livro" /\ ultimo'.livro.preco < 0
             /\ ultimo'.id \in Ids(banco.conteudo))
            => ultimo'.exc = "ValueError" /\ banco' = banco /\ backups' = backups]_vars

\* C13 witness: the repository refused a negative price for a stored record.
C13_Witness ==
    /\ ultimo.op = "atualizar_preco" /\ ultimo.livro.preco < 0
    /\ ultimo.exc = "ValueError"
    /\ \E l \in buscar_por_id(banco.conteudo, ultimo.id) : l.preco >= 0

\* C14: deleting an id that is not in the store returns False at the
\* repository and raises not-found at the service; the stored records and
\* their count are unchanged.
C14_RemoverInexistente ==
    [][/\ (ultimo'.op = "deletar" /\ ultimo'.id \notin Ids(banco.conteudo))
            => /\ ultimo'.exc = "" /\ ultimo'.ret = 0
               /\ banco' = banco
               /\ contar_livros(banco'.conteudo) = contar_livros(banco.conteudo)
       /\ (ultimo'.op = "remover_livro" /\ ultimo'.id \notin Ids(banco.conteudo))
            => /\ ultimo'.exc = "NaoEncontrado"
               /\ banco' = banco
               /\ contar_livros(banco'.conteudo) = contar_livros(banco.conteudo)]_vars

\* C14 witness: the repository returned False for an id that is not in a
\* store that holds a record.
C14_Witness ==
    /\ ultimo.op = "deletar" /\ ultimo.ret = 0
    /\ ultimo.id \notin Ids(banco.conteudo)
    /\ banco.conteudo.livros # {}

\* The validation rules, on a record's fields.
NaoBranco(s) == \E i \in 1..Len(s) : s[i] \notin {" ", "\t", "\n"}

Valido(titulo, autor, ano, preco) ==
    /\ NaoBranco(titulo)
    /\ NaoBranco(autor)
    /\ 1000 <= ano /\ ano <= AnoAtual + 1
    /\ preco >= 0

\* C16: every record in the store satisfies the validation rules, whatever
\* sequence of add, update, price change, removal, import and restore led to
\* it.
C16_ArmazenadosValidos ==
    \A l \in banco.conteudo.livros :
        Valido(l.titulo, l.autor, l.ano_publicacao, l.preco)

\* C16 witness: a restore brought back a store that holds a record.
C16_Witness ==
    /\ ultimo.op = "restaurar_backup" /\ ultimo.ret = 1
    /\ banco.conteudo.livros # {}

\* C15: the constructor returns the object exactly when title and author are
\* not blank, 1000 <= year <= currentYear + 1 and price >= 0, and raises the
\* validation error for every other input.
C15_ConstrucaoSeESoSeValido ==
    ultimo.op = "Livro"
        => IF Valido(entrada.titulo, entrada.autor, entrada.ano_publicacao, entrada.preco)
           THEN /\ ultimo.exc = ""
                /\ ultimo.livro = Livro(entrada.id, entrada.titulo, entrada.autor,
                                        entrada.ano_publicacao, entrada.preco)
           ELSE ultimo.exc = "ValueError"

\* C15 witness: the constructor accepted the year 1000 with the price 0.
C15_Witness ==
    /\ ultimo.op = "Livro" /\ ultimo.exc = ""
    /\ entrada.ano_publicacao = 1000 /\ entrada.preco = 0

\* C17: for a valid record, with an id (a positive integer) or without,
\* from_csv_row(to_csv_row()) gives a record with the same id, title, author,
\* year and price.
C17_IdaEVolta ==
    ultimo.op = "to_csv_row"
        => /\ ultimo.exc = ""
           /\ ultimo.livro = Livro(entrada.id, entrada.titulo, entrada.autor,
                                   entrada.ano_publicacao, entrada.preco)

\* C17 witness: the round trip of a record without id whose title has a blank.
C17_Witness ==
    /\ ultimo.op = "to_csv_row" /\ ultimo.exc = ""
    /\ entrada.id = None /\ ultimo.livro.id = None
    /\ entrada.titulo = <<" ", "D">>

\* C18: from_csv_row of a row [title, author, year, price] of valid values
\* gives the record with that title, author, year and price and no id; of a
\* row [id, title, author, year, price] the record with these fields and
\* that id.
C18_QuatroOuCincoCampos ==
    (/\ ultimo.op = "from_csv_row"
     /\ Valido(entrada.titulo, entrada.autor, entrada.ano_publicacao, entrada.preco))
        => /\ ultimo.exc = ""
           /\ ultimo.livro = Livro(IF ultimo.ret = 4 THEN None ELSE entrada.id,
                                   entrada.titulo, entrada.autor,
                                   entrada.ano_publicacao, entrada.preco)

\* The rows of a file that are data: not the header in row 1, not blank.
Branca(linha) == \A i \in 1..Len(linha) : ~NaoBranco(linha[i])

Dados(linhas) ==
    {k \in 1..Len(linhas) : ~Branca(linhas[k]) /\ ~(k = 1 /\ _is_header(linhas[1]))}

\* A well-formed data row: [id?, title, author, year, price] with an integer
\* or empty id, title and author not blank, the year an integer within the
\* bounds, the price a number that is not negative; and the record it stands
\* for.
Desloc(linha) == IF Len(linha) = 5 THEN 1 ELSE 0

BemFormada(linha) ==
    /\ Len(linha) \in {4, 5}
    /\ Len(linha) = 5 => linha[1] = <<>> \/ int_de_str(linha[1]).ok
    /\ int_de_str(linha[Desloc(linha) + 3]).ok
    /\ float_de_str(linha[Desloc(linha) + 4]).ok
    /\ Valido(linha[Desloc(linha) + 1], linha[Desloc(linha) + 2],
              int_de_str(linha[Desloc(linha) + 3]).val,
              float_de_str(linha[Desloc(linha) + 4]).val)

RegistroDe(linha) ==
    Livro(IF Len(linha) = 5 /\ linha[1] # <<>> THEN int_de_str(linha[1]).val ELSE None,
          linha[Desloc(linha) + 1], linha[Desloc(linha) + 2],
          int_de_str(linha[Desloc(linha) + 3]).val,
          float_de_str(linha[Desloc(linha) + 4]).val)

\* The members of a set of row numbers, in ascending order.
RECURSIVE EmOrdem(_)
EmOrdem(S) ==
    IF S = {} THEN <<>>
    ELSE LET m == CHOOSE x \in S : \A y \in S : x <= y
         IN <<m>> \o EmOrdem(S \ {m})

\* C19: the import of a file of well-formed and malformed rows (after an
\* optional header) does not abort; it returns the records of the well-formed
\* rows in file order and notes one error for each malformed row, with that
\* row's number in the file.
C19_ImportacaoIsolaFalhas ==
    (/\ ultimo.op = "importar_livros" /\ entrada.sniff
     /\ \A k \in 1..Len(entrada.linhas) : ~Branca(entrada.linhas[k]))
        => LET linhas == entrada.linhas
               boas   == EmOrdem({k \in Dados(linhas) : BemFormada(linhas[k])})
               mas    == EmOrdem({k \in Dados(linhas) : ~BemFormada(linhas[k])})
           IN /\ ultimo.exc = ""
              /\ ultimo.livros = [i \in 1..Len(boas) |-> RegistroDe(linhas[boas[i]])]
              /\ ultimo.linhas_com_erro = mas

\* C20: in a file whose delimiter is found, a row whose cells are all empty or
\* blank gives no record and no error, wherever it is in the file: no error
\* carries the number of such a row, and records and errors together are no
\* more than the data rows.
C20_LinhasEmBrancoIgnoradas ==
    (ultimo.op = "importar_livros" /\ entrada.sniff)
        => /\ \A i \in 1..Len(ultimo.linhas_com_erro) :
                  ~Branca(entrada.linhas[ultimo.linhas_com_erro[i]])
           /\ Len(ultimo.livros) + Len(ultimo.linhas_com_erro)
                <= Cardinality(Dados(entrada.linhas))

\* The first cell, lower-cased, holds one of the indicators.
PalavraChave(celula) == \E k \in headers_indicators : Contem(lower(celula), k)

\* C21: the first row of an imported file is skipped if and only if its first
\* cell, lower-cased, contains one of the indicators; otherwise it is parsed
\* as a data row (it gives a record or a logged error), and
\* validar_arquivo_csv takes the same decision on the same file.
C21_CabecalhoSeESoSe ==
    (entrada.existe /\ entrada.sniff /\ entrada.linhas # <<>> /\ entrada.linhas[1] # <<>>) =>
        LET chave == PalavraChave(entrada.linhas[1][1])
            resto == Cardinality({k \in 2..Len(entrada.linhas) : ~Branca(entrada.linhas[k])})
        IN /\ ultimo.op = "importar_livros" =>
                /\ ultimo.exc = ""
                /\ chave => \A i \in 1..Len(ultimo.linhas_com_erro) :
                                ultimo.linhas_com_erro[i] # 1
                /\ Len(ultimo.livros) + Len(ultimo.linhas_com_erro)
                       = resto + (IF chave THEN 0 ELSE 1)
           /\ ultimo.op = "validar_arquivo_csv" =>
                /\ ultimo.valido
                /\ ultimo.tem_cabecalho = chave

\* The header export writes was skipped and the row after it was read.
C21_Witness ==
    /\ ultimo.op = "importar_livros"
    /\ Len(entrada.linhas) >= 2
    /\ entrada.linhas[1] # <<>>
    /\ entrada.linhas[1][1] = <<"I", "D">>
    /\ Len(ultimo.livros) = 1
    /\ ultimo.linhas_com_erro = <<>>

\* The title, author, year and price of the records of a list, in its order.
Campos(livros) ==
    [i \in 1..Len(livros) |->
        <<livros[i].titulo, livros[i].autor, livros[i].ano_publicacao, livros[i].preco>>]

\* C22: importing the file that an export of a non-empty list wrote yields,
\* in the same order, records with the same title, author, year and price as
\* the exported ones, and the header row is neither a record nor an error.
C22_ExportarEImportar ==
    ultimo.op = "importar_livros" =>
        /\ ultimo.exc = ""
        /\ Campos(ultimo.livros) = Campos(entrada)
        /\ ultimo.linhas_com_erro = <<>>

\* C23: exporting an empty list returns None and writes no file, and
\* exportar_dados_csv on an empty store writes no file either: the files of the
\* export area are unchanged.
C23_ExportarVazioNadaEscreve ==
    [][ /\ (ultimo'.op = "exportar_livros" /\ entrada = <<>>) =>
              (ultimo'.ret = None /\ exports' = exports)
        /\ (ultimo'.op = "exportar_dados_csv" /\ banco.conteudo.livros = {}) =>
              exports' = exports ]_vars

\* The empty list was exported.
C23_Witness ==
    /\ ultimo.op = "exportar_livros"
    /\ entrada = <<>>
    /\ ultimo.ret = None
    /\ exports = {}

\* C24: a bulk import persists no id taken from the file: the records it adds
\* have ids no earlier INSERT was given, the rows stored before stay as they
\* were, the records after one whose INSERT fails are still saved, and the
\* count returned is contar_livros() after the import minus before it.
C24_ImportarGeraIdsNovos ==
    [][ (ultimo'.op = "importar_dados_csv" /\ ultimo'.exc = "") =>
            LET lidos    == importar_livros(entrada.arquivo).livros
                falharam == entrada.falhas \cap (1..Len(lidos))
                novos    == banco'.conteudo.livros \ banco.conteudo.livros
            IN /\ banco.conteudo.livros \subseteq banco'.conteudo.livros
               /\ \A l \in novos : l.id \notin atribuidos /\ l.id > banco.conteudo.seq
               /\ ultimo'.ret = Len(lidos) - Cardinality(falharam)
               /\ ultimo'.ret = contar_livros(banco'.conteudo) - contar_livros(banco.conteudo)
      ]_vars

\* The import of the rows with the ids 7 and 1 into a store that holds id 1:
\* the first INSERT failed and the second record was saved under a new id.
C24_Witness ==
    /\ ultimo.op = "importar_dados_csv"
    /\ ultimo.ret = 1
    /\ entrada.falhas = {1}
    /\ \E l \in banco.conteudo.livros : l.id = 1 /\ l.titulo = <<"F">>
    /\ \E l \in banco.conteudo.livros : l.id > 1 /\ l.titulo = <<"E">>

\* A record satisfies a dict of filters: every key that is in the dict holds
\* of it, the bounds inclusive and a bound of 0 too.
Satisfaz(l, filtros) ==
    /\ filtros.autor.tem => Contem(lower(l.autor), lower(filtros.autor.val))
    /\ filtros.titulo.tem => Contem(lower(l.titulo), lower(filtros.titulo.val))
    /\ filtros.ano_min.tem => l.ano_publicacao >= filtros.ano_min.val
    /\ filtros.ano_max.tem => l.ano_publicacao <= filtros.ano_max.val
    /\ filtros.preco_min.tem => l.preco >= filtros.preco_min.val
    /\ filtros.preco_max.tem => l.preco <= filtros.preco_max.val

\* C25: the advanced search returns exactly the stored records that satisfy
\* every filter supplied, each once: author and title as case-insensitive
\* substrings, the year and the price within inclusive bounds, a bound applied
\* whenever it is supplied (a bound of 0 too) and ignored only when absent.
C25_BuscaAvancadaExata ==
    ultimo.op = "buscar_livros_avancado" =>
        /\ {ultimo.ret[i] : i \in 1..Len(ultimo.ret)}
              = {l \in banco.conteudo.livros : Satisfaz(l, ultimo.filtros)}
        /\ \A i, j \in 1..Len(ultimo.ret) : ultimo.ret[i] = ultimo.ret[j] => i = j

\* C26: buscar_estatisticas is computed from the rows stored now: on an empty
\* store the total, the average, minimum and maximum price and the minimum and
\* maximum year are 0; otherwise the total is contar_livros() and the minimum
\* and maximum price and year are those of the stored rows (and the average
\* times the total is the sum of the prices).
C26_EstatisticasDoConjuntoAtual ==
    ultimo.op = "buscar_estatisticas" =>
        LET S == banco.conteudo.livros
            e == ultimo.ret
        IN IF S = {}
           THEN /\ e.total_livros = 0
                /\ e.preco_medio.num = 0
                /\ e.preco_minimo = 0 /\ e.preco_maximo = 0
                /\ e.ano_mais_antigo = 0 /\ e.ano_mais_recente = 0
           ELSE /\ e.total_livros = contar_livros(banco.conteudo)
                /\ e.preco_medio.num * e.total_livros = e.preco_medio.den * SomaPrecos(S)
                /\ \E l \in S : l.preco = e.preco_minimo
                /\ \E l \in S : l.preco = e.preco_maximo
                /\ \E l \in S : l.ano_publicacao = e.ano_mais_antigo
                /\ \E l \in S : l.ano_publicacao = e.ano_mais_recente
                /\ \A l \in S : /\ e.preco_minimo <= l.preco
                                 /\ l.preco <= e.preco_maximo
                                 /\ e.ano_mais_antigo <= l.ano_publicacao
                                 /\ l.ano_publicacao <= e.ano_mais_recente

\* The statistics of the store that holds the books of 1965 at 29.90 and of
\* 1951 at 24.50.
C26_Witness ==
    /\ ultimo.op = "buscar_estatisticas"
    /\ {<<l.ano_publicacao, l.preco>> : l \in banco.conteudo.livros}
          = {<<1965, 2990>>, <<1951, 2450>>}
    /\ ultimo.ret.total_livros = 2
    /\ ultimo.ret.preco_minimo = 2450 /\ ultimo.ret.preco_maximo = 2990
    /\ ultimo.ret.ano_mais_antigo = 1951 /\ ultimo.ret.ano_mais_recente = 1965

\* C27: a repository operation is one transaction: when it returns, the
\* writes of its body are the committed table; when it raises, the committed
\* table is as before the operation, so later reads see none of its writes;
\* on both paths its connection is closed, and between operations no
\* connection is open.
C27_TransacaoPorOperacao ==
    [][ /\ (conexao.fase = "dentro" /\ conexao'.fase = "fora") =>
              /\ ultimo'.exc = "" => banco'.conteudo = conexao.tx
              /\ ultimo'.exc # "" => banco' = banco
              /\ conexao'.abertas = conexao.abertas - 1
        /\ conexao'.fase = "fora" => conexao'.abertas = 0 ]_vars

\* criar raised at its commit: the row it had inserted is not in the table.
C27_Witness ==
    /\ conexao.fase = "fora"
    /\ ultimo.op = "criar"
    /\ ultimo.exc = "sqlite3.Error"
    /\ conexao.tx.livros # {}
    /\ banco.conteudo.livros = {}
    /\ conexao.abertas = 0

\* C28: atualizar raises a validation error when the record has no id or is
\* invalid and returns False when no stored row has its id, the store unchanged
\* in both cases; when it returns True the row with that id holds the record's
\* fields under the same id and every other stored row is unchanged.
C28_AtualizarSoALinhaDoId ==
    [][ ultimo'.op = "atualizar" =>
            LET l      == ultimo'.livro
                valido == Valido(l.titulo, l.autor, l.ano_publicacao, l.preco)
                outros(c) == {x \in c.livros : x.id # l.id}
            IN /\ (l.id = None \/ ~valido) =>
                     (ultimo'.exc = "ValueError" /\ banco' = banco)
               /\ (l.id # None /\ valido /\ l.id \notin Ids(banco.conteudo)) =>
                     (ultimo'.exc = "" /\ ultimo'.ret = 0 /\ banco' = banco)
               /\ (ultimo'.exc = "" /\ ultimo'.ret = 1) =>
                     /\ l.id \in Ids(banco.conteudo)
                     /\ buscar_por_id(banco'.conteudo, l.id) = {l}
                     /\ outros(banco'.conteudo) = outros(banco.conteudo)
                     /\ banco'.conteudo.seq = banco.conteudo.seq ]_vars

\* atualizar returned True and changed one of two stored rows.
C28_Witness ==
    /\ ultimo.op = "atualizar" /\ ultimo.ret = 1
    /\ ultimo.livro \in banco.conteudo.livros
    /\ \E x \in banco.conteudo.livros : x.id # ultimo.id /\ x.preco # ultimo.livro.preco

\* C29: whenever criar_backup returns a path, the artifact of that name is in
\* the backup area when it returns: the pruning of a snapshot never deletes the
\* artifact that snapshot just created.
C29_BackupRetornadoExiste ==
    (ultimo.op = "criar_backup" /\ ultimo.ret # None) =>
        Artefato(backups, ultimo.ret) # {}

\* C30: an id that criar has handed out is never handed out again, in any
\* sequence of service operations, restaurar_backup among them: the ids a
\* call inserts under are none of the ids inserted under before.
C30_IdNuncaReatribuido ==
    [][ \A id \in Inseridos(ultimo'.op, banco.conteudo, banco'.conteudo) :
            id \notin atribuidos ]_vars

====
